---------------------------- MODULE Spec2Model ----------------------------
(***************************************************************************)
(* County adapter resolution and normalization layer                      *)
(* (src/county_adapters.py).  One call of lookup_property is a sequence   *)
(* of steps: the dispatch on the normalized county name, then one step    *)
(* for each HTTP request an adapter issues and one for the response it    *)
(* receives.  The upstream server is the environment: each response is    *)
(* chosen nondeterministically among a transport error, a non-200 status, *)
(* a body that is not JSON, an ArcGIS error document without "features",  *)
(* and a document {"features": [{"attributes": {...}}, ...]}.             *)
(*                                                                         *)
(* Python values are tagged records: None, str (a sequence of one-letter  *)
(* strings), numbers (m / 10^e, trailing zeros removed) and dict (a       *)
(* function from keys to values).                                         *)
(***************************************************************************)
EXTENDS Integers, Sequences, FiniteSets, TLC

VARIABLES
    pc,           \* position of the call: "idle", a request/response point, "done"
    county,       \* local `county` of lookup_property after line 21
    parcel_id,    \* argument parcel_id
    attempt,      \* index of the loop variable in field_variations / query_attempts
    requests,     \* the HTTP requests issued by this call, in order
    response,     \* local `response`: the last response received
    parcel_data,  \* lookup_pinellas: local parcel_data
    object_id,    \* lookup_pinellas: local object_id
    pao_data,     \* lookup_pinellas: local pao_data
    outcome,      \* "none" | "returned" | "raised"
    result,       \* the dict returned, or the exception raised
    county_arg,   \* history: argument county as passed, before line 21
    answers,      \* history: the responses this call received, in order
    reference,    \* history: an earlier call, kept to compare a repeat with
    municode,     \* municode_parser.py: the call at hand, arguments and value
    ws,           \* excel_generator.py: the call at hand, arguments and sheet rows
    session_state, \* app.py: st.session_state
    report        \* app.py: the generate_parcel_report call of this script run

\* the history variables: only the specifications that need them record them
history == <<county_arg, answers, reference>>

\* the variables of the modules around lookup_property
outside == <<municode, ws, session_state, report>>

\* what a step of lookup_property leaves alone
others == <<history, outside>>

vars == <<pc, county, parcel_id, attempt, requests, response,
          parcel_data, object_id, pao_data, outcome, result,
          county_arg, answers, reference,
          municode, ws, session_state, report>>

---------------------------------------------------------------------------
(* Bounds of the model *)

\* longest parcel identifier typed by the user
MaxIdLen == 2

\* longest identifier in the runs that exercise the normalizers
MaxSeparatorIdLen == 3

---------------------------------------------------------------------------
(* Python values *)

PyNone == [t |-> "None"]

Str(s) == [t |-> "str", s |-> s]

RECURSIVE Normalize(_, _)
Normalize(m, e) ==
    IF e > 0 /\ m % 10 = 0
        THEN Normalize(m \div 10, e - 1)
        ELSE [t |-> "num", m |-> m, e |-> e]

\* the number m / 10^e
Num(m, e) == Normalize(m, e)

PyInt(n) == Num(n, 0)

Dict(f) == [t |-> "dict", kv |-> f]

EmptyDict == Dict(<<>>)

\* bool(v): None, '', 0, {} are false
Truthy(v) ==
    CASE v.t = "None" -> FALSE
      [] v.t = "str"  -> v.s # <<>>
      [] v.t = "num"  -> v.m # 0
      [] v.t = "dict" -> DOMAIN v.kv # {}

\* a or b
PyOr(a, b) == IF Truthy(a) THEN a ELSE b

\* d.get(k, default) on a dict value
Get(d, k, default) == IF k \in DOMAIN d.kv THEN d.kv[k] ELSE default

---------------------------------------------------------------------------
(* str methods *)

LowerChars ==
    <<"a", "b", "c", "d", "e", "f", "g", "h", "i", "j", "k", "l", "m", "n",
      "o", "p", "q", "r", "s", "t", "u", "v", "w", "x", "y", "z">>

UpperChars ==
    <<"A", "B", "C", "D", "E", "F", "G", "H", "I", "J", "K", "L", "M", "N",
      "O", "P", "Q", "R", "S", "T", "U", "V", "W", "X", "Y", "Z">>

DigitChars ==
    <<"0", "1", "2", "3", "4", "5", "6", "7", "8", "9">>

IndexIn(c, seq) ==
    IF \E k \in 1..Len(seq) : seq[k] = c
        THEN CHOOSE k \in 1..Len(seq) : seq[k] = c
        ELSE 0

IsCased(c) == IndexIn(c, LowerChars) > 0 \/ IndexIn(c, UpperChars) > 0

IsDigit(c) == IndexIn(c, DigitChars) > 0

IsSpace(c) == c \in {" ", "\t", "\n"}

UpperChar(c) ==
    IF IndexIn(c, LowerChars) > 0 THEN UpperChars[IndexIn(c, LowerChars)] ELSE c

LowerChar(c) ==
    IF IndexIn(c, UpperChars) > 0 THEN LowerChars[IndexIn(c, UpperChars)] ELSE c

ToUpper(s) == [k \in 1..Len(s) |-> UpperChar(s[k])]

ToLower(s) == [k \in 1..Len(s) |-> LowerChar(s[k])]

RECURSIVE LStrip(_)
LStrip(s) ==
    IF s # <<>> /\ IsSpace(Head(s)) THEN LStrip(Tail(s)) ELSE s

RECURSIVE RStrip(_)
RStrip(s) ==
    IF s # <<>> /\ IsSpace(s[Len(s)])
        THEN RStrip(SubSeq(s, 1, Len(s) - 1))
        ELSE s

\* s.strip()
Strip(s) == RStrip(LStrip(s))

\* s.title(): a cased letter is upper-cased after an uncased character (or at
\* the start) and lower-cased after a cased one
Title(s) ==
    [k \in 1..Len(s) |->
        IF ~IsCased(s[k]) THEN s[k]
        ELSE IF k > 1 /\ IsCased(s[k - 1]) THEN LowerChar(s[k])
        ELSE UpperChar(s[k])]

\* s.replace(c, '', 1): only the first occurrence is removed
RemoveFirst(s, c) ==
    IF IndexIn(c, s) = 0 THEN s
    ELSE SubSeq(s, 1, IndexIn(c, s) - 1) \o SubSeq(s, IndexIn(c, s) + 1, Len(s))

\* s.replace(c, '')
Remove(s, c) == SelectSeq(s, LAMBDA x : x # c)

\* needle in hay
Contains(hay, needle) ==
    \E k \in 0..(Len(hay) - Len(needle)) :
        SubSeq(hay, k + 1, k + Len(needle)) = needle

\* length of the leading run of non-whitespace characters
RECURSIVE TokenLen(_)
TokenLen(s) ==
    IF s = <<>> \/ IsSpace(Head(s)) THEN 0 ELSE 1 + TokenLen(Tail(s))

\* s.split(): the whitespace-separated tokens
RECURSIVE Split(_)
Split(s) ==
    LET u == LStrip(s)
        n == TokenLen(u)
    IN  IF u = <<>> THEN <<>>
        ELSE <<SubSeq(u, 1, n)>> \o Split(SubSeq(u, n + 1, Len(u)))

RECURSIVE DigitsValue(_)
DigitsValue(ds) ==
    IF ds = <<>> THEN 0
    ELSE 10 * DigitsValue(SubSeq(ds, 1, Len(ds) - 1))
         + (IndexIn(ds[Len(ds)], DigitChars) - 1)

AllDigits(ds) == \A k \in 1..Len(ds) : IsDigit(ds[k])

\* float(tok) for tok made of digits and at most one ".": digits, digits.digits,
\* digits. and .digits are numbers; every other token raises ValueError
FloatOk(tok) ==
    LET dot == IndexIn(".", tok)
        ip  == IF dot = 0 THEN tok ELSE SubSeq(tok, 1, dot - 1)
        fp  == IF dot = 0 THEN <<>> ELSE SubSeq(tok, dot + 1, Len(tok))
    IN  AllDigits(ip) /\ AllDigits(fp) /\ Len(ip) + Len(fp) > 0

FloatOf(tok) ==
    LET dot == IndexIn(".", tok)
        ip  == IF dot = 0 THEN tok ELSE SubSeq(tok, 1, dot - 1)
        fp  == IF dot = 0 THEN <<>> ELSE SubSeq(tok, dot + 1, Len(tok))
    IN  Num(DigitsValue(ip \o fp), Len(fp))

---------------------------------------------------------------------------
(* String literals of the source *)

TxtHillsborough ==
    <<"H", "i", "l", "l", "s", "b", "o", "r", "o", "u", "g", "h">>

TxtPinellas ==
    <<"P", "i", "n", "e", "l", "l", "a", "s">>

TxtManatee ==
    <<"M", "a", "n", "a", "t", "e", "e">>

TxtPasco ==
    <<"P", "a", "s", "c", "o">>

TxtSarasota ==
    <<"S", "a", "r", "a", "s", "o", "t", "a">>

TxtAtlantis ==
    <<"A", "t", "l", "a", "n", "t", "i", "s">>

TxtStLucie ==
    <<"S", "t", ".", " ", "L", "u", "c", "i", "e">>

TxtSarasotaPhase2 ==
    <<"S", "a", "r", "a", "s", "o", "t", "a", " ", "C", "o", "u", "n", "t",
    "y", " ", "l", "o", "o", "k", "u", "p", " ", "c", "o", "m", "i", "n",
    "g", " ", "i", "n", " ", "P", "h", "a", "s", "e", " ", "2">>

TxtCountyOpen ==
    <<"C", "o", "u", "n", "t", "y", " ", "\"">>

TxtNotSupported ==
    <<"\"", " ", "n", "o", "t", " ", "s", "u", "p", "p", "o", "r", "t", "e",
    "d">>

TxtParcel ==
    <<"P", "a", "r", "c", "e", "l", " ">>

TxtNotFoundHillsborough ==
    <<" ", "n", "o", "t", " ", "f", "o", "u", "n", "d", " ", "i", "n", " ",
    "H", "i", "l", "l", "s", "b", "o", "r", "o", "u", "g", "h", " ", "C",
    "o", "u", "n", "t", "y", " ", "d", "a", "t", "a", "b", "a", "s", "e">>

TxtApiError ==
    <<"A", "P", "I", " ", "E", "r", "r", "o", "r", ":", " ">>

TxtNotFoundPinellas ==
    <<" ", "n", "o", "t", " ", "f", "o", "u", "n", "d", " ", "i", "n", " ",
    "P", "i", "n", "e", "l", "l", "a", "s", " ", "C", "o", "u", "n", "t",
    "y", " ", "G", "I", "S", ".", "\n", "\n", "T", "r", "y", ":", " ", "h",
    "t", "t", "p", "s", ":", "/", "/", "w", "w", "w", ".", "p", "c", "p",
    "a", "o", ".", "g", "o", "v", "/", "P", "r", "o", "p", "e", "r", "t",
    "y", "D", "e", "t", "a", "i", "l", "?", "P", "a", "r", "c", "e", "l",
    "I", "D", "=">>

TxtPinellasTail ==
    <<"\n", " ", " ", " ", " ", " ", " ", " ", " ", " ", " ", " ", " ">>

TxtPaoLink ==
    <<"h", "t", "t", "p", "s", ":", "/", "/", "w", "w", "w", ".", "p", "c",
    "p", "a", "o", ".", "g", "o", "v", "/", "P", "r", "o", "p", "e", "r",
    "t", "y", "D", "e", "t", "a", "i", "l", "?", "P", "a", "r", "c", "e",
    "l", "I", "D", "=">>

TxtNotFoundPasco ==
    <<" ", "n", "o", "t", " ", "f", "o", "u", "n", "d", " ", "i", "n", " ",
    "P", "a", "s", "c", "o", " ", "C", "o", "u", "n", "t", "y", " ", "d",
    "a", "t", "a", "b", "a", "s", "e", ".", " ", "F", "o", "r", "m", "a",
    "t", ":", " ", "X", "X", "-", "X", "X", "-", "X", "X", "-", "X", "X",
    "-", "X", "X", "X", "-", "X", "X", "X", "-", "X", "X", "X", "X">>

TxtNotFoundManatee ==
    <<"P", "a", "r", "c", "e", "l", " ", "I", "D", " ", "n", "o", "t", " ",
    "f", "o", "u", "n", "d", " ", "i", "n", " ", "M", "a", "n", "a", "t",
    "e", "e", " ", "C", "o", "u", "n", "t", "y">>

TxtTampa ==
    <<"T", "A", "M", "P", "A">>

TxtContactCityCounty ==
    <<"C", "o", "n", "t", "a", "c", "t", " ", "C", "i", "t", "y", "/", "C",
    "o", "u", "n", "t", "y", " ", "f", "o", "r", " ", "z", "o", "n", "i",
    "n", "g", " ", "i", "n", "f", "o">>

TxtContactJurisdiction ==
    <<"C", "o", "n", "t", "a", "c", "t", " ", "j", "u", "r", "i", "s", "d",
    "i", "c", "t", "i", "o", "n">>

TxtZero ==
    <<"0">>

TxtAcme ==
    <<"A", "C", "M", "E", " ", "L", "L", "C">>

TxtMainSt ==
    <<"1", " ", "M", "A", "I", "N", " ", "S", "T">>

TxtOakAve ==
    <<"2", " ", "O", "A", "K", " ", "A", "V", "E">>

TxtLargo ==
    <<"L", "A", "R", "G", "O">>

TxtClearwater ==
    <<"C", "L", "E", "A", "R", "W", "A", "T", "E", "R">>

TxtR1 ==
    <<"R", "-", "1">>

TxtLot7 ==
    <<"L", "O", "T", " ", "7", " ", "B", "L", "K", " ", "2">>

TxtTimedOut ==
    <<"R", "e", "a", "d", " ", "t", "i", "m", "e", "d", " ", "o", "u", "t",
    ".">>

TxtAcres250 ==
    <<"2", ".", "5", "0", " ", "A", "C">>

TxtAcres25 ==
    <<"2", ".", "5">>

TxtNA ==
    <<"N", "/", "A">>

TxtClientError ==
    <<" ", "C", "l", "i", "e", "n", "t", " ", "E", "r", "r", "o", "r">>

TxtServerError ==
    <<" ", "S", "e", "r", "v", "e", "r", " ", "E", "r", "r", "o", "r">>

TxtJsonError ==
    <<"E", "x", "p", "e", "c", "t", "i", "n", "g", " ", "v", "a", "l", "u",
    "e", ":", " ", "l", "i", "n", "e", " ", "1", " ", "c", "o", "l", "u",
    "m", "n", " ", "1", " ", "(", "c", "h", "a", "r", " ", "0", ")">>

---------------------------------------------------------------------------
(* Endpoints and raw field names *)

HillsboroughUrl ==
    "https://www25.swfwmd.state.fl.us/arcgis12/rest/services/BaseVector/parcel_search/MapServer/7/query"

PinellasParcelUrl ==
    "https://egis.pinellas.gov/gis/rest/services/Accela/AccelaAddressParcel/MapServer/1/query"

PinellasRelatedUrl ==
    "https://egis.pinellas.gov/gis/rest/services/Accela/AccelaAddressParcel/MapServer/1/queryRelatedRecords"

PascoUrl ==
    "https://www25.swfwmd.state.fl.us/arcgis12/rest/services/BaseVector/parcel_search/MapServer/12/query"

ManateeUrl ==
    "https://www.mymanatee.org/gisits/rest/services/opendata/Planning/MapServer/22/query"

KObjectId == "PGIS.PGIS.Parcels.OBJECTID"

KJurisdiction == "PGIS.PGIS.AccelaParcels.JURISDICTION"

KLegal == "PGIS.PGIS.AccelaParcels.LEGAL"

KStatedArea == "PGIS.PGIS.AccelaParcels.STATEDAREA"

KZoneClass == "PGIS.PGIS.AccelaParcels.ZONECLASS"

KProposedLandUse == "PGIS.PGIS.AccelaParcels.PROPOSEDLANDUSE"

KPaoUseCode == "PGIS.PGIS.AccelaParcels.PAO_USECODE"

KSubdivision == "PGIS.PGIS.AccelaParcels.SUBDIVISION"

KBk == "PGIS.PGIS.AccelaParcels.BK"

KLot == "PGIS.PGIS.AccelaParcels.LOT"

KSc == "PGIS.PGIS.AccelaParcels.SC"

KTw == "PGIS.PGIS.AccelaParcels.TW"

KRg == "PGIS.PGIS.AccelaParcels.RG"

KFloodZone == "PGIS.PGIS.AccelaParcels.FLOOD_ZONE"

---------------------------------------------------------------------------
(* Identifier normalizers *)

\* lookup_hillsborough: parcel_id.replace('-', '').replace(' ', '').replace('.', '')
NormalizeFolio(p) == Remove(Remove(Remove(p, "-"), " "), ".")

\* lookup_pasco: parcel_id.replace('-', '').replace(' ', '')
NormalizeParcel(p) == Remove(Remove(p, "-"), " ")

---------------------------------------------------------------------------
(* Candidate lists *)

\* lookup_pinellas: field_variations
field_variations(p) ==
    << <<"PGIS.PGIS.AccelaParcels.PARCELID", p>>,
       <<"PGIS.PGIS.Parcels.PARCELID", p>>,
       <<"PARCELID", p>>,
       <<"PIN", p>> >>

\* the list with the normalized form ahead of the form as typed
query_attempts_normalized_first(p) ==
    << <<"PARCELID", NormalizeParcel(p)>>,
       <<"PARCELID", p>>,
       <<"ALTKEY", NormalizeParcel(p)>>,
       <<"ALTKEY", p>> >>

\* lookup_pasco: query_attempts
query_attempts(p) ==
    << <<"PARCELID", p>>,
       <<"PARCELID", NormalizeParcel(p)>>,
       <<"ALTKEY", p>>,
       <<"ALTKEY", NormalizeParcel(p)>> >>

\* requests.get(url, params={'where': f"{field}='{value}'", 'outFields': '*',
\* 'returnGeometry': 'false', 'f': 'json'})
QueryRequest(url, field, value) ==
    [url |-> url, field |-> field, value |-> value,
     where |-> <<field, "='", value, "'">>]

RECURSIVE DigitsOf(_)
DigitsOf(n) ==
    IF n < 10 THEN <<DigitChars[n + 1]>>
    ELSE DigitsOf(n \div 10) \o <<DigitChars[(n % 10) + 1]>>

\* str(v) of an int or a str
PyStr(v) == IF v.t = "num" THEN DigitsOf(v.m) ELSE v.s

\* requests.get(related_url, params={'objectIds': str(object_id),
\* 'relationshipId': '0', 'outFields': '*', 'f': 'json'})
RelatedRequest(oid) ==
    [url |-> PinellasRelatedUrl, objectIds |-> PyStr(oid), relationshipId |-> "0"]

---------------------------------------------------------------------------
(* Results *)

\* a failure dict that carries no message
FailureWithoutMessage(msg) == [success |-> FALSE, error |-> PyNone]

\* {'success': False, 'error': msg}
Failure(msg) == [success |-> FALSE, error |-> Str(msg)]

\* the final else with the county left out of the message
UnsupportedErrorWithoutName(c) ==
    IF c = TxtSarasota
        THEN Failure(TxtSarasotaPhase2)
        ELSE Failure(TxtCountyOpen \o TxtNotSupported)

\* lookup_property: the county is not implemented
UnsupportedError(c) ==
    IF c = TxtSarasota
        THEN Failure(TxtSarasotaPhase2)
        ELSE Failure(TxtCountyOpen \o c \o TxtNotSupported)

HillsboroughNotFound(folio) ==
    Failure(TxtParcel \o folio \o TxtNotFoundHillsborough)

ApiError(text) == Failure(TxtApiError \o text)

PinellasNotFound(p) ==
    Failure(TxtParcel \o p \o TxtNotFoundPinellas \o p \o TxtPinellasTail)

PascoNotFound(p) == Failure(TxtParcel \o p \o TxtNotFoundPasco)

ManateeNotFound == Failure(TxtNotFoundManatee)

\* the dict literal of lookup_hillsborough
MapHillsborough(attr) ==
    [success |-> TRUE,
     address |-> Get(attr, "SITUSADD1", Str(<<>>)),
     city |-> Get(attr, "SCITY", Str(TxtTampa)),
     zip |-> Get(attr, "SZIP", Str(<<>>)),
     owner |-> Get(attr, "OWNERNAME", Str(<<>>)),
     owner_address |-> Get(attr, "OWNERADD1", Str(<<>>)),
     owner_city |-> Get(attr, "OWNERCITY", Str(<<>>)),
     owner_state |-> Get(attr, "OWNERSTATE", Str(<<>>)),
     owner_zip |-> Get(attr, "OWNERZIP", Str(<<>>)),
     legal_description |-> Get(attr, "LEGDECFULL", Str(<<>>)),
     legal_description2 |-> Get(attr, "LEGAL2", Str(<<>>)),
     acres |-> Get(attr, "ACRES", PyInt(0)),
     area_sqft |-> Get(attr, "AREANO", PyInt(0)),
     zoning |-> Get(attr, "ZONING", Str(TxtContactCityCounty)),
     land_use |-> Get(attr, "PARUSEDESC", Str(<<>>)),
     land_use_code |-> Get(attr, "DOR4CODE", Str(<<>>)),
     assessed_land |-> Get(attr, "ASSD_LND", PyInt(0)),
     assessed_building |-> Get(attr, "ASSD_BLD", PyInt(0)),
     assessed_total |-> Get(attr, "ASSD_TOT", PyInt(0)),
     market_value |-> Get(attr, "PARVAL", PyInt(0)),
     subdivision |-> Get(attr, "SUBDIV_NM", Str(<<>>)),
     block |-> Get(attr, "BLOCK", Str(<<>>)),
     lot |-> Get(attr, "LOT", Str(<<>>)),
     section |-> Get(attr, "S_SECTION", Str(<<>>)),
     township |-> Get(attr, "S_TOWNSHIP", Str(<<>>)),
     range |-> Get(attr, "S_RANGE", Str(<<>>)),
     year_built |-> Get(attr, "YRBLT_ACT", Str(<<>>)),
     num_buildings |-> Get(attr, "NO_BULDNG", PyInt(0)),
     num_units |-> Get(attr, "NO_RES_UNITS", PyInt(0)),
     total_living_area |-> Get(attr, "TOT_LVG_AREA", PyInt(0)),
     sale_date |-> Get(attr, "SALE1_DATE", Str(<<>>)),
     sale_amount |-> Get(attr, "SALE1_AMT", PyInt(0)),
     parcel_link |-> Get(attr, "PAWEBPAGE", Str(<<>>)),
     error |-> PyNone]

\* the dict literal of lookup_pasco
MapPasco(attr) ==
    [success |-> TRUE,
     address |-> PyOr(Get(attr, "SITUSADD1", Str(<<>>)),
                      Get(attr, "SITEADD", Str(<<>>))),
     city |-> Get(attr, "SCITY", Str(<<>>)),
     zip |-> Get(attr, "SZIP", Str(<<>>)),
     owner |-> Get(attr, "OWNERNAME", Str(<<>>)),
     owner_address |-> Get(attr, "OWNERADD1", Str(<<>>)),
     owner_city |-> Get(attr, "OWNERCITY", Str(<<>>)),
     owner_state |-> Get(attr, "OWNERSTATE", Str(<<>>)),
     owner_zip |-> Get(attr, "OWNERZIP", Str(<<>>)),
     legal_description |-> Get(attr, "LEGDECFULL", Str(<<>>)),
     legal_description2 |-> Get(attr, "LEGAL2", Str(<<>>)),
     acres |-> Get(attr, "ACRES", PyInt(0)),
     area_sqft |-> Get(attr, "AREANO", PyInt(0)),
     zoning |-> Get(attr, "ZONING", Str(TxtContactCityCounty)),
     land_use |-> Get(attr, "PARUSEDESC", Str(<<>>)),
     land_use_code |-> Get(attr, "DOR4CODE", Str(<<>>)),
     assessed_land |-> Get(attr, "ASSD_LND", PyInt(0)),
     assessed_building |-> Get(attr, "ASSD_BLD", PyInt(0)),
     assessed_total |-> Get(attr, "ASSD_TOT", PyInt(0)),
     market_value |-> Get(attr, "PARVAL", PyInt(0)),
     subdivision |-> Get(attr, "SUBDIV_NM", Str(<<>>)),
     block |-> Get(attr, "BLOCK", Str(<<>>)),
     lot |-> Get(attr, "LOT", Str(<<>>)),
     section |-> Get(attr, "S_SECTION", Str(<<>>)),
     township |-> Get(attr, "S_TOWNSHIP", Str(<<>>)),
     range |-> Get(attr, "S_RANGE", Str(<<>>)),
     year_built |-> Get(attr, "YRBLT_ACT", Str(<<>>)),
     num_buildings |-> Get(attr, "NO_BULDNG", PyInt(0)),
     num_units |-> Get(attr, "NO_RES_UNITS", PyInt(0)),
     total_living_area |-> Get(attr, "TOT_LVG_AREA", PyInt(0)),
     sale_date |-> Get(attr, "SALE1_DATE", Str(<<>>)),
     sale_amount |-> Get(attr, "SALE1_AMT", PyInt(0)),
     parcel_link |-> Get(attr, "PAWEBPAGE", Str(<<>>)),
     error |-> PyNone]

\* the dict literal of lookup_manatee
MapManatee(attr) ==
    [success |-> TRUE,
     address |-> Get(attr, "PRIMARY_ADDRESS", Str(<<>>)),
     city |-> Get(attr, "PROP_CITYNAME", Str(<<>>)),
     zip |-> Get(attr, "PROP_ZIP", Str(<<>>)),
     owner |-> Get(attr, "OWNER", Str(<<>>)),
     owner_address |-> Get(attr, "MAILING_ADDRESS", Str(<<>>)),
     owner_city |-> Get(attr, "MAIL_CITY", Str(<<>>)),
     owner_state |-> Get(attr, "MAIL_STATE", Str(<<>>)),
     owner_zip |-> Get(attr, "MAIL_ZIP", Str(<<>>)),
     legal_description |-> Get(attr, "LEGAL_DESCRIPTION", Str(<<>>)),
     legal_description2 |-> Str(<<>>),
     acres |-> Get(attr, "ACRES", PyInt(0)),
     area_sqft |-> Get(attr, "AREA_SQFT", PyInt(0)),
     zoning |-> Get(attr, "ZONING", Str(<<>>)),
     land_use |-> Get(attr, "FUTURE_LAND_USE", Str(<<>>)),
     land_use_code |-> Get(attr, "DOR_UC", Str(<<>>)),
     assessed_land |-> Get(attr, "LAND_VALUE", PyInt(0)),
     assessed_building |-> Get(attr, "BLDG_VALUE", PyInt(0)),
     assessed_total |-> Get(attr, "JUST_VALUE", PyInt(0)),
     market_value |-> Get(attr, "MARKET_VALUE", PyInt(0)),
     subdivision |-> Get(attr, "SUBDIVISION", Str(<<>>)),
     block |-> Get(attr, "BLOCK", Str(<<>>)),
     lot |-> Get(attr, "LOT", Str(<<>>)),
     section |-> Get(attr, "SECTION", Str(<<>>)),
     township |-> Get(attr, "TOWNSHIP", Str(<<>>)),
     range |-> Get(attr, "RANGE", Str(<<>>)),
     year_built |-> Get(attr, "YR_BLT", Str(<<>>)),
     num_buildings |-> Get(attr, "NO_BLDG", PyInt(0)),
     num_units |-> Get(attr, "NO_RES_UNTS", PyInt(0)),
     total_living_area |-> Get(attr, "TOT_LVG_AREA", PyInt(0)),
     sale_date |-> Get(attr, "SALE_DATE", Str(<<>>)),
     sale_amount |-> Get(attr, "SALE_PRC", PyInt(0)),
     parcel_link |-> Str(<<>>),
     error |-> PyNone]

\* float(parcel_data.get(STATEDAREA, '0').split()[0] or 0): the exception it
\* raises, or "" when it evaluates
AcresException(pd) ==
    LET v == Get(pd, KStatedArea, Str(TxtZero))
    IN  IF v.t # "str" THEN "AttributeError"
        ELSE IF Split(v.s) = <<>> THEN "IndexError"
        ELSE IF ~FloatOk(Split(v.s)[1]) THEN "ValueError"
        ELSE ""

\* its value when it evaluates
AcresValue(pd) ==
    FloatOf(Split(Get(pd, KStatedArea, Str(TxtZero)).s)[1])

\* the dict literal of lookup_pinellas
MapPinellas(pd, pao, p) ==
    [success |-> TRUE,
     address |-> Get(pao, "SITUSSTREET", Str(<<>>)),
     city |-> PyOr(Get(pd, KJurisdiction, Str(<<>>)),
                   Get(pao, "SITUSCITY", Str(<<>>))),
     zip |-> Get(pao, "SITUSZIP", Str(<<>>)),
     owner |-> Get(pao, "OWNERNAME", Str(<<>>)),
     owner_address |-> Get(pao, "OWNERADD1", Str(<<>>)),
     owner_city |-> Get(pao, "OWNERCITY", Str(<<>>)),
     owner_state |-> Get(pao, "OWNERSTATE", Str(<<>>)),
     owner_zip |-> Get(pao, "OWNERZIP", Str(<<>>)),
     legal_description |-> PyOr(Get(pd, KLegal, Str(<<>>)),
                                Get(pao, "LEGALDESC", Str(<<>>))),
     legal_description2 |-> Str(<<>>),
     acres |-> AcresValue(pd),
     area_sqft |-> PyInt(0),
     zoning |-> Get(pd, KZoneClass, Str(TxtContactJurisdiction)),
     land_use |-> Get(pd, KProposedLandUse, Str(<<>>)),
     land_use_code |-> Get(pd, KPaoUseCode, Str(<<>>)),
     assessed_land |-> Get(pao, "LANDVAL", PyInt(0)),
     assessed_building |-> Get(pao, "BLDGVAL", PyInt(0)),
     assessed_total |-> Get(pao, "JUSTVAL", PyInt(0)),
     market_value |-> Get(pao, "ASMTVAL", PyInt(0)),
     subdivision |-> Get(pd, KSubdivision, Str(<<>>)),
     block |-> Get(pd, KBk, Str(<<>>)),
     lot |-> Get(pd, KLot, Str(<<>>)),
     section |-> Get(pd, KSc, Str(<<>>)),
     township |-> Get(pd, KTw, Str(<<>>)),
     range |-> Get(pd, KRg, Str(<<>>)),
     year_built |-> Get(pao, "YRBLT", Str(<<>>)),
     num_buildings |-> Get(pao, "BLDGCNT", PyInt(0)),
     num_units |-> Get(pao, "UNITS", PyInt(0)),
     total_living_area |-> Get(pao, "TOTLIVAREA", PyInt(0)),
     sale_date |-> Get(pao, "SALEDT1", Str(<<>>)),
     sale_amount |-> Get(pao, "SALEPRICE1", PyInt(0)),
     parcel_link |-> Str(TxtPaoLink \o p),
     fema_flood_zone |-> Get(pd, KFloodZone, Str(<<>>)),
     error |-> PyNone]

---------------------------------------------------------------------------
(* The upstream servers: what a request can be answered with *)

\* marks a raw field the feature does not carry
Absent == [t |-> "absent"]

\* every attribute map that gives each key of Opt one of its options
AttrMaps(Opt) ==
    LET K   == DOMAIN Opt
        All == UNION {Opt[k] : k \in K}
    IN  { [k \in {j \in K : f[j] # Absent} |-> f[k]] :
            f \in {g \in [K -> All] : \A k \in K : g[k] \in Opt[k]} }

\* SWFWMD parcel_search layers 7 and 12
SwfwmdOptions ==
    "SITUSADD1" :> {Absent, Str(<<>>), Str(TxtMainSt)}
    @@ "SITEADD" :> {Absent, Str(TxtOakAve)}
    @@ "OWNERNAME" :> {Absent, PyNone, Str(TxtAcme)}
    @@ "ACRES" :> {Absent, Num(250, 2)}

SwfwmdAttrs == AttrMaps(SwfwmdOptions)

\* Manatee Planning layer 22
ManateeOptions ==
    "PRIMARY_ADDRESS" :> {Absent, PyNone, Str(TxtMainSt)}
    @@ "OWNER" :> {Absent, Str(TxtAcme)}
    @@ "ACRES" :> {Absent, Num(250, 2)}

ManateeAttrs == AttrMaps(ManateeOptions)

\* Pinellas AccelaAddressParcel layer 1
PinellasParcelOptions ==
    KObjectId :> {Absent, PyInt(0), PyInt(42)}
    @@ KStatedArea :> {Absent, PyNone, Str(<<>>), Str(TxtAcres250),
                       Str(TxtAcres25), Str(TxtNA)}
    @@ KJurisdiction :> {Absent, Str(TxtLargo)}
    @@ KZoneClass :> {Absent, Str(TxtR1)}

PinellasParcelAttrs == AttrMaps(PinellasParcelOptions)

\* Pinellas PAOGENERAL related table
PaoOptions ==
    "OWNERNAME" :> {Absent, PyNone, Str(TxtAcme)}
    @@ "SITUSSTREET" :> {Absent, Str(TxtMainSt)}
    @@ "SITUSCITY" :> {Absent, Str(TxtClearwater)}

PaoAttrs == AttrMaps(PaoOptions)

\* a second feature of a response
OtherFeatureAttrs == "OWNERNAME" :> Str(TxtLot7) @@ KZoneClass :> Str(TxtLot7)

Feature(m) == [attributes |-> Dict(m)]

\* requests.get raised (connection error, timeout): str(e) is text
Exception(text) == [kind |-> "exception", text |-> text]

NotJson == [json |-> FALSE]

Json(data) == [json |-> TRUE, data |-> data]

HttpResponse(status, body) == [kind |-> "http", status |-> status, body |-> body]

\* {"error": {...}}: ArcGIS reports a bad query in a 200 document
ErrorDoc == [error |-> "Unable to complete operation."]

FeatureLists(Maps) ==
    {<<>>}
    \cup {<<Feature(a)>> : a \in Maps}
    \cup {<<Feature(a), Feature(OtherFeatureAttrs)>> : a \in Maps}

QueryDocs(Maps) == {ErrorDoc} \cup {[features |-> fl] : fl \in FeatureLists(Maps)}

StatusCodes == {404, 500}

ExceptionTexts == {<<>>, TxtTimedOut}

\* answers that are no 200 JSON document
FailedResponses ==
    {Exception(x) : x \in ExceptionTexts}
    \cup {HttpResponse(s, NotJson) : s \in StatusCodes}
    \cup {HttpResponse(s, Json([features |-> <<Feature(OtherFeatureAttrs)>>])) :
            s \in StatusCodes}
    \cup {HttpResponse(200, NotJson)}

QueryResponses(Maps) ==
    FailedResponses
    \cup {HttpResponse(200, Json(d)) : d \in QueryDocs(Maps)}

\* what the SWFWMD, Manatee and Pinellas parcel layers can answer
SwfwmdResponses == QueryResponses(SwfwmdAttrs)

ManateeResponses == QueryResponses(ManateeAttrs)

PinellasParcelResponses == QueryResponses(PinellasParcelAttrs)

RelatedGroup(records) == [relatedRecords |-> records]

\* a group that carries no relatedRecords
BareGroup == [objectId |-> 42]

RelatedDocs ==
    {ErrorDoc, [relatedRecordGroups |-> <<>>],
     [relatedRecordGroups |-> <<BareGroup>>],
     [relatedRecordGroups |-> <<RelatedGroup(<<>>)>>]}
    \cup {[relatedRecordGroups |-> <<RelatedGroup(<<Feature(a)>>)>>] :
            a \in PaoAttrs}
    \cup {[relatedRecordGroups |->
             <<RelatedGroup(<<>>), RelatedGroup(<<Feature(a), Feature(OtherFeatureAttrs)>>)>>] :
            a \in PaoAttrs}

RelatedResponses ==
    {Exception(x) : x \in ExceptionTexts}
    \cup {HttpResponse(s, NotJson) : s \in StatusCodes}
    \cup {HttpResponse(200, NotJson)}
    \cup {HttpResponse(200, Json(d)) : d \in RelatedDocs}

---------------------------------------------------------------------------
(* Reading a response *)

\* response.raise_for_status() raises HTTPError
RaisesForStatus(r) == r.status >= 400 /\ r.status < 600

\* str(e) of the exception raised by requests.get, raise_for_status or json()
ErrorText(r) ==
    IF r.kind = "exception" THEN r.text
    ELSE IF RaisesForStatus(r)
        THEN DigitsOf(r.status)
             \o (IF r.status < 500 THEN TxtClientError ELSE TxtServerError)
    ELSE TxtJsonError

\* requests.get; raise_for_status(); json() raises
RequestFails(r) ==
    r.kind = "exception" \/ RaisesForStatus(r) \/ ~r.body.json

\* data.get('features') and len(data['features']) > 0
HasFeatures(data) ==
    "features" \in DOMAIN data /\ Len(data.features) > 0

\* the attributes of the last feature instead of the first
LastAttributes(data) == data.features[Len(data.features)].attributes

\* data['features'][0]['attributes']
FirstAttributes(data) == data.features[1].attributes

\* lookup_pinellas step 1: status 200, json() parses, and features is non-empty
PinellasHit(r) ==
    r.kind = "http" /\ r.status = 200 /\ r.body.json /\ HasFeatures(r.body.data)

\* the relatedRecordGroups loop: the first group with related records
RECURSIVE FirstRelated(_)
FirstRelated(groups) ==
    IF groups = <<>> THEN EmptyDict
    ELSE IF "relatedRecords" \in DOMAIN Head(groups)
            /\ Len(Head(groups).relatedRecords) > 0
        THEN Head(groups).relatedRecords[1].attributes
    ELSE FirstRelated(Tail(groups))

\* lookup_pinellas step 2: pao_data after the related-records query
RelatedAttributes(r) ==
    IF r.kind = "http" /\ r.status = 200 /\ r.body.json
       /\ "relatedRecordGroups" \in DOMAIN r.body.data
        THEN FirstRelated(r.body.data.relatedRecordGroups)
        ELSE EmptyDict

---------------------------------------------------------------------------
(* Inputs *)

IdAlphabet == {"1", "-", "."}

RECURSIVE SeqsUpTo(_, _)
SeqsUpTo(S, n) ==
    IF n = 0 THEN {<<>>}
    ELSE SeqsUpTo(S, n - 1)
         \cup {Append(s, c) : s \in {x \in SeqsUpTo(S, n - 1) : Len(x) = n - 1}, c \in S}

\* the Lookup button is disabled while parcel_id is empty
ParcelIds == SeqsUpTo(IdAlphabet, MaxIdLen) \ {<<>>}

CountyNames ==
    {TxtHillsborough, TxtPinellas, TxtManatee, TxtPasco, TxtSarasota,
     TxtAtlantis, TxtStLucie, <<>>}

\* the names as typed: any letter case, blanks around
CountyInputs ==
    LET Cased == UNION {{n, ToLower(n), ToUpper(n)} : n \in CountyNames}
    IN  UNION {{n, <<" ">> \o n, n \o <<" ">>, <<" ">> \o n \o <<"\n">>} : n \in Cased}

---------------------------------------------------------------------------
(* lookup_property *)

NoLocals ==
    /\ attempt = 0
    /\ requests = <<>>
    /\ response = PyNone
    /\ parcel_data = PyNone
    /\ object_id = PyNone
    /\ pao_data = PyNone

\* the keys of report_sections, in the order of the dict literal
SectionKeys ==
    <<"property_info", "site_characteristics", "zoning_land_use",
      "building_requirements", "parking_requirements", "assessment_values",
      "sales_history", "links_references">>

SectionSet == {SectionKeys[i] : i \in DOMAIN SectionKeys}

\* a report_sections dict with every flag b
AllSections(b) == [k \in SectionSet |-> b]

\* app.py, session state initialization
InitialSession ==
    [property_data |-> PyNone,
     lookup_history |-> <<>>,
     favorites |-> <<>>,
     report_sections |-> AllSections(TRUE)]

\* no call of lookup_property is running
NoCall ==
    /\ pc = "idle"
    /\ county = <<>>
    /\ parcel_id = <<>>
    /\ NoLocals
    /\ outcome = "none"
    /\ result = PyNone
    /\ county_arg = <<>>
    /\ answers = <<>>
    /\ reference = PyNone

Init ==
    /\ NoCall
    /\ municode = PyNone
    /\ ws = PyNone
    /\ session_state = InitialSession
    /\ report = PyNone

\* the county stripped but not title-cased
StripOnly(c) == Strip(c)

\* county.strip().title()
NormalizeCounty(c) == Title(Strip(c))

\* a chain whose last branch enters an adapter instead of failing
AdapterOrHillsborough(c) ==
    IF c = TxtPinellas THEN "pinellas"
    ELSE IF c = TxtManatee THEN "manatee"
    ELSE IF c = TxtPasco THEN "pasco"
    ELSE "hillsborough"

\* the if/elif chain of lookup_property
Adapter(c) ==
    IF c = TxtHillsborough THEN "hillsborough"
    ELSE IF c = TxtPinellas THEN "pinellas"
    ELSE IF c = TxtManatee THEN "manatee"
    ELSE IF c = TxtPasco THEN "pasco"
    ELSE "none"

Returns(r) ==
    /\ pc' = "done"
    /\ outcome' = "returned"
    /\ result' = r

Raises(e) ==
    /\ pc' = "done"
    /\ outcome' = "raised"
    /\ result' = [exception |-> e]

LookupProperty(c, p) ==
    /\ pc = "idle"
    /\ county' = NormalizeCounty(c)
    /\ parcel_id' = p
    /\ attempt' = IF Adapter(county') \in {"pinellas", "pasco"} THEN 1 ELSE 0
    /\ IF Adapter(county') = "none"
        THEN Returns(UnsupportedError(county'))
        ELSE pc' = Adapter(county') /\ UNCHANGED <<outcome, result>>
    /\ UNCHANGED <<requests, response, parcel_data, object_id, pao_data>>

\* the Pinellas attributes kept in module-level variables across calls
ReturnKeepsAttributes ==
    /\ pc = "done"
    /\ pc' = "idle"
    /\ county' = <<>>
    /\ parcel_id' = <<>>
    /\ attempt' = 0
    /\ requests' = <<>>
    /\ response' = PyNone
    /\ outcome' = "none"
    /\ result' = PyNone
    /\ UNCHANGED <<parcel_data, object_id, pao_data>>

\* the caller takes the result; the locals of the call are gone
Return ==
    /\ pc = "done"
    /\ pc' = "idle"
    /\ county' = <<>>
    /\ parcel_id' = <<>>
    /\ attempt' = 0
    /\ requests' = <<>>
    /\ response' = PyNone
    /\ parcel_data' = PyNone
    /\ object_id' = PyNone
    /\ pao_data' = PyNone
    /\ outcome' = "none"
    /\ result' = PyNone

---------------------------------------------------------------------------
(* lookup_hillsborough *)

HillsboroughRequest ==
    /\ pc = "hillsborough"
    /\ requests' = Append(requests,
            QueryRequest(HillsboroughUrl, "FOLIONUM", NormalizeFolio(parcel_id)))
    /\ pc' = "hillsborough_wait"
    /\ UNCHANGED <<county, parcel_id, attempt, response, parcel_data,
                   object_id, pao_data, outcome, result>>

HillsboroughResult(r, p) ==
    IF RequestFails(r) THEN ApiError(ErrorText(r))
    ELSE IF HasFeatures(r.body.data)
        THEN MapHillsborough(FirstAttributes(r.body.data))
    ELSE HillsboroughNotFound(NormalizeFolio(p))

HillsboroughResponse(r) ==
    /\ pc = "hillsborough_wait"
    /\ response' = r
    /\ Returns(HillsboroughResult(r, parcel_id))
    /\ UNCHANGED <<county, parcel_id, attempt, requests, parcel_data,
                   object_id, pao_data>>

---------------------------------------------------------------------------
(* lookup_manatee *)

ManateeRequest ==
    /\ pc = "manatee"
    /\ requests' = Append(requests, QueryRequest(ManateeUrl, "PIN", parcel_id))
    /\ pc' = "manatee_wait"
    /\ UNCHANGED <<county, parcel_id, attempt, response, parcel_data,
                   object_id, pao_data, outcome, result>>

ManateeResult(r) ==
    IF RequestFails(r) THEN ApiError(ErrorText(r))
    ELSE IF HasFeatures(r.body.data)
        THEN MapManatee(FirstAttributes(r.body.data))
    ELSE ManateeNotFound

ManateeResponse(r) ==
    /\ pc = "manatee_wait"
    /\ response' = r
    /\ Returns(ManateeResult(r))
    /\ UNCHANGED <<county, parcel_id, attempt, requests, parcel_data,
                   object_id, pao_data>>

---------------------------------------------------------------------------
(* lookup_pasco *)

\* every candidate requested at once, without waiting for the answers
PascoFanOut ==
    /\ pc = "pasco"
    /\ requests' = requests \o
            [k \in 1..(Len(query_attempts(parcel_id)) - attempt + 1) |->
                QueryRequest(PascoUrl, query_attempts(parcel_id)[attempt + k - 1][1],
                             query_attempts(parcel_id)[attempt + k - 1][2])]
    /\ pc' = "pasco_wait"
    /\ UNCHANGED <<county, parcel_id, attempt, response, parcel_data,
                   object_id, pao_data, outcome, result>>

PascoRequest ==
    /\ pc = "pasco"
    /\ requests' = Append(requests,
            QueryRequest(PascoUrl, query_attempts(parcel_id)[attempt][1],
                         query_attempts(parcel_id)[attempt][2]))
    /\ pc' = "pasco_wait"
    /\ UNCHANGED <<county, parcel_id, attempt, response, parcel_data,
                   object_id, pao_data, outcome, result>>

\* the body of the try: the candidate returns a feature
PascoHit(r) == ~RequestFails(r) /\ HasFeatures(r.body.data)

\* a candidate that fails is requested once more before the next one
PascoRetryOnce(r) ==
    /\ pc = "pasco_wait"
    /\ response' = r
    /\ IF PascoHit(r)
        THEN /\ Returns(MapPasco(FirstAttributes(r.body.data)))
             /\ UNCHANGED attempt
        ELSE IF Len(requests) < 2 * attempt
        THEN /\ pc' = "pasco"
             /\ UNCHANGED <<attempt, outcome, result>>
        ELSE IF attempt < Len(query_attempts(parcel_id))
        THEN /\ attempt' = attempt + 1
             /\ pc' = "pasco"
             /\ UNCHANGED <<outcome, result>>
        ELSE /\ Returns(PascoNotFound(parcel_id))
             /\ UNCHANGED attempt
    /\ UNCHANGED <<county, parcel_id, requests, parcel_data, object_id, pao_data>>

PascoResponse(r) ==
    /\ pc = "pasco_wait"
    /\ response' = r
    /\ IF PascoHit(r)
        THEN /\ Returns(MapPasco(FirstAttributes(r.body.data)))
             /\ UNCHANGED attempt
        ELSE IF attempt < Len(query_attempts(parcel_id))
        THEN /\ attempt' = attempt + 1
             /\ pc' = "pasco"
             /\ UNCHANGED <<outcome, result>>
        ELSE /\ Returns(PascoNotFound(parcel_id))
             /\ UNCHANGED attempt
    /\ UNCHANGED <<county, parcel_id, requests, parcel_data, object_id, pao_data>>

---------------------------------------------------------------------------
(* lookup_pinellas *)

PinellasRequest ==
    /\ pc = "pinellas"
    /\ requests' = Append(requests,
            QueryRequest(PinellasParcelUrl, field_variations(parcel_id)[attempt][1],
                         field_variations(parcel_id)[attempt][2]))
    /\ pc' = "pinellas_wait"
    /\ UNCHANGED <<county, parcel_id, attempt, response, parcel_data,
                   object_id, pao_data, outcome, result>>

\* the return statement that combines both sources: line 196 may raise
PinellasReturn(pd, pao) ==
    IF AcresException(pd) # ""
        THEN Raises(AcresException(pd))
        ELSE Returns(MapPinellas(pd, pao, parcel_id))

\* the code after the loop, up to the related-records request
PinellasAfterLoop(pd, oid) ==
    IF ~Truthy(pd)
        THEN /\ Returns(PinellasNotFound(parcel_id))
             /\ UNCHANGED pao_data
        ELSE /\ pao_data' = EmptyDict
             /\ IF Truthy(oid)
                 THEN pc' = "pinellas_related" /\ UNCHANGED <<outcome, result>>
                 ELSE PinellasReturn(pd, EmptyDict)

PinellasResponse(r) ==
    /\ pc = "pinellas_wait"
    /\ response' = r
    /\ IF PinellasHit(r)
        THEN /\ parcel_data' = FirstAttributes(r.body.data)
             /\ object_id' = Get(parcel_data', KObjectId, PyNone)
             /\ UNCHANGED attempt
             /\ PinellasAfterLoop(parcel_data', object_id')
        ELSE IF attempt < Len(field_variations(parcel_id))
        THEN /\ attempt' = attempt + 1
             /\ pc' = "pinellas"
             /\ UNCHANGED <<parcel_data, object_id, pao_data, outcome, result>>
        ELSE /\ UNCHANGED <<attempt, parcel_data, object_id>>
             /\ PinellasAfterLoop(parcel_data, object_id)
    /\ UNCHANGED <<county, parcel_id, requests>>

PinellasRelatedRequest ==
    /\ pc = "pinellas_related"
    /\ requests' = Append(requests, RelatedRequest(object_id))
    /\ pc' = "pinellas_related_wait"
    /\ UNCHANGED <<county, parcel_id, attempt, response, parcel_data,
                   object_id, pao_data, outcome, result>>

PinellasRelatedResponse(r) ==
    /\ pc = "pinellas_related_wait"
    /\ response' = r
    /\ pao_data' = RelatedAttributes(r)
    /\ PinellasReturn(parcel_data, pao_data')
    /\ UNCHANGED <<county, parcel_id, attempt, requests, parcel_data, object_id>>

---------------------------------------------------------------------------
(* The call, step by step.  The position is tested before an input or an
   answer is drawn: each action tests it again. *)

Next ==
    \/ pc = "idle"
       /\ \E c \in CountyInputs, p \in ParcelIds :
          LookupProperty(c, p) /\ UNCHANGED others
    \/ HillsboroughRequest /\ UNCHANGED others
    \/ pc = "hillsborough_wait"
       /\ \E r \in SwfwmdResponses : HillsboroughResponse(r) /\ UNCHANGED others
    \/ ManateeRequest /\ UNCHANGED others
    \/ pc = "manatee_wait"
       /\ \E r \in ManateeResponses : ManateeResponse(r) /\ UNCHANGED others
    \/ PascoRequest /\ UNCHANGED others
    \/ pc = "pasco_wait"
       /\ \E r \in SwfwmdResponses : PascoResponse(r) /\ UNCHANGED others
    \/ PinellasRequest /\ UNCHANGED others
    \/ pc = "pinellas_wait"
       /\ \E r \in PinellasParcelResponses : PinellasResponse(r) /\ UNCHANGED others
    \/ PinellasRelatedRequest /\ UNCHANGED others
    \/ pc = "pinellas_related_wait"
       /\ \E r \in RelatedResponses : PinellasRelatedResponse(r) /\ UNCHANGED others
    \/ Return /\ UNCHANGED others

---------------------------------------------------------------------------
(* The call with the county argument as typed.  Every spelling of the county
   is passed; each request times out, so that the adapter that was entered
   shows in the requests and every call ends. *)

\* s.swapcase()
SwapCase(s) ==
    [k \in 1..Len(s) |-> IF IndexIn(s[k], UpperChars) > 0 THEN LowerChar(s[k])
                          ELSE UpperChar(s[k])]

\* the county argument: the names in every letter case, blanks around
ResolveCounties ==
    CountyInputs
    \cup {SwapCase(n) : n \in CountyNames}
    \cup {<<"\t">> \o SwapCase(n) \o <<" ", " ">> : n \in CountyNames}

ResolveResponses == {Exception(TxtTimedOut)}

ResolveNext ==
    \/ pc = "idle"
       /\ \E c \in ResolveCounties, p \in ParcelIds :
          /\ LookupProperty(c, p)
          /\ county_arg' = c
          /\ UNCHANGED <<answers, reference, outside>>
    \/ HillsboroughRequest /\ UNCHANGED others
    \/ pc = "hillsborough_wait"
       /\ \E r \in ResolveResponses : HillsboroughResponse(r) /\ UNCHANGED others
    \/ ManateeRequest /\ UNCHANGED others
    \/ pc = "manatee_wait"
       /\ \E r \in ResolveResponses : ManateeResponse(r) /\ UNCHANGED others
    \/ PascoRequest /\ UNCHANGED others
    \/ pc = "pasco_wait"
       /\ \E r \in ResolveResponses : PascoResponse(r) /\ UNCHANGED others
    \/ PinellasRequest /\ UNCHANGED others
    \/ pc = "pinellas_wait"
       /\ \E r \in ResolveResponses : PinellasResponse(r) /\ UNCHANGED others
    \/ Return /\ county_arg' = <<>> /\ UNCHANGED <<answers, reference, outside>>

---------------------------------------------------------------------------
(* The call with identifiers that mix digits with every separator.  Each
   request times out, so that lookup_pasco goes on to the candidates that
   carry the normalized identifier. *)

SeparatorAlphabet == {"1", "-", " ", "."}

SeparatorIds == SeqsUpTo(SeparatorAlphabet, MaxSeparatorIdLen) \ {<<>>}

NormalizeNext ==
    \/ pc = "idle"
       /\ \E c \in {TxtHillsborough, TxtPasco}, p \in SeparatorIds :
          LookupProperty(c, p) /\ UNCHANGED others
    \/ HillsboroughRequest /\ UNCHANGED others
    \/ pc = "hillsborough_wait"
       /\ \E r \in ResolveResponses : HillsboroughResponse(r) /\ UNCHANGED others
    \/ PascoRequest /\ UNCHANGED others
    \/ pc = "pasco_wait"
       /\ \E r \in ResolveResponses : PascoResponse(r) /\ UNCHANGED others
    \/ Return /\ UNCHANGED others

---------------------------------------------------------------------------
(* The calls of one process with their history: every response a call
   receives is recorded, and one finished call is kept as the reference a
   later call with the same arguments and answers is compared with. *)

RepeatCounties == {TxtHillsborough, TxtPinellas, TxtManatee, TxtPasco, TxtAtlantis}

RepeatIds == {<<"1">>, <<"1", "-">>}

\* one transport error, one empty answer and two hits per layer
RepeatSwfwmdResponses ==
    {Exception(TxtTimedOut),
     HttpResponse(200, Json([features |-> <<>>])),
     HttpResponse(200, Json([features |-> <<Feature("OWNERNAME" :> Str(TxtAcme))>>])),
     HttpResponse(200, Json([features |-> <<Feature("SITEADD" :> Str(TxtOakAve))>>]))}

RepeatManateeResponses ==
    {Exception(TxtTimedOut),
     HttpResponse(500, NotJson),
     HttpResponse(200, Json([features |-> <<Feature("OWNER" :> Str(TxtAcme))>>]))}

RepeatParcelResponses ==
    {Exception(TxtTimedOut),
     HttpResponse(200, Json([features |-> <<Feature(<<>>)>>])),
     HttpResponse(200, Json([features |->
        <<Feature(KObjectId :> PyInt(42) @@ KStatedArea :> Str(TxtAcres250))>>])),
     HttpResponse(200, Json([features |-> <<Feature(KStatedArea :> PyNone)>>]))}

RepeatRelatedResponses ==
    {Exception(TxtTimedOut),
     HttpResponse(200, Json([relatedRecordGroups |->
        <<RelatedGroup(<<Feature("OWNERNAME" :> Str(TxtAcme))>>)>>]))}

\* the call that is finishing, as the reference keeps it
FinishedCall ==
    [county |-> county, parcel_id |-> parcel_id, answers |-> answers,
     outcome |-> outcome, result |-> result]

Answered(r) == answers' = Append(answers, r) /\ UNCHANGED <<county_arg, reference, outside>>

RepeatNext ==
    \/ pc = "idle"
       /\ \E c \in RepeatCounties, p \in RepeatIds :
          LookupProperty(c, p) /\ UNCHANGED others
    \/ HillsboroughRequest /\ UNCHANGED others
    \/ pc = "hillsborough_wait"
       /\ \E r \in RepeatSwfwmdResponses : HillsboroughResponse(r) /\ Answered(r)
    \/ ManateeRequest /\ UNCHANGED others
    \/ pc = "manatee_wait"
       /\ \E r \in RepeatManateeResponses : ManateeResponse(r) /\ Answered(r)
    \/ PascoRequest /\ UNCHANGED others
    \/ pc = "pasco_wait"
       /\ \E r \in RepeatSwfwmdResponses : PascoResponse(r) /\ Answered(r)
    \/ PinellasRequest /\ UNCHANGED others
    \/ pc = "pinellas_wait"
       /\ \E r \in RepeatParcelResponses : PinellasResponse(r) /\ Answered(r)
    \/ PinellasRelatedRequest /\ UNCHANGED others
    \/ pc = "pinellas_related_wait"
       /\ \E r \in RepeatRelatedResponses : PinellasRelatedResponse(r) /\ Answered(r)
    \/ Return /\ answers' = <<>> /\ UNCHANGED <<county_arg, reference, outside>>
    \/ /\ reference = PyNone
       /\ Return
       /\ answers' = <<>>
       /\ reference' = FinishedCall
       /\ UNCHANGED <<county_arg, outside>>

---------------------------------------------------------------------------
(* municode_parser.py *)

TxtStPetersburgDot ==
    <<"S", "T", ".", " ", "P", "E", "T", "E", "R", "S", "B", "U", "R", "G">>

TxtStPetersburg ==
    <<"S", "T", " ", "P", "E", "T", "E", "R", "S", "B", "U", "R", "G">>

TxtSarasotaCity ==
    <<"S", "A", "R", "A", "S", "O", "T", "A">>

TxtBradenton ==
    <<"B", "R", "A", "D", "E", "N", "T", "O", "N">>

TxtPalmetto ==
    <<"P", "A", "L", "M", "E", "T", "T", "O">>

TxtPlantCity ==
    <<"P", "L", "A", "N", "T", " ", "C", "I", "T", "Y">>

TxtTempleTerrace ==
    <<"T", "E", "M", "P", "L", "E", " ", "T", "E", "R", "R", "A", "C", "E">>

TxtParkingRatio ==
    <<"p", "a", "r", "k", "i", "n", "g", " ", "r", "a", "t", "i", "o">>

\* s.replace(a, b) for one-character a and b
Replace(s, a, b) == [k \in 1..Len(s) |-> IF s[k] = a THEN b ELSE s[k]]

\* the dict literal city_municodes
city_municodes ==
    TxtTampa :> "https://library.municode.com/fl/tampa/codes/code_of_ordinances"
    @@ TxtStPetersburgDot :> "https://library.municode.com/fl/st._petersburg/codes/code_of_ordinances"
    @@ TxtStPetersburg :> "https://library.municode.com/fl/st._petersburg/codes/code_of_ordinances"
    @@ TxtClearwater :> "https://library.municode.com/fl/clearwater/codes/land_development_code"
    @@ TxtSarasotaCity :> "https://library.municode.com/fl/sarasota/codes/code_of_ordinances"
    @@ TxtBradenton :> "https://library.municode.com/fl/bradenton/codes/code_of_ordinances"
    @@ TxtPalmetto :> "https://library.municode.com/fl/palmetto/codes/code_of_ordinances"
    @@ TxtPlantCity :> "https://library.municode.com/fl/plant_city/codes/code_of_ordinances"
    @@ TxtTempleTerrace :> "https://library.municode.com/fl/temple_terrace/codes/code_of_ordinances"

\* the dict literal county_municodes
county_municodes ==
    TxtHillsborough :> "https://library.municode.com/fl/hillsborough_county/codes/land_development_code"
    @@ TxtPinellas :> "https://library.municode.com/fl/pinellas_county/codes/code_of_ordinances"
    @@ TxtPasco :> "https://library.municode.com/fl/pasco_county/codes/land_development_code"
    @@ TxtManatee :> "https://library.municode.com/fl/manatee_county/codes/land_development_code"
    @@ TxtSarasota :> "https://library.municode.com/fl/sarasota_county/codes/code_of_ordinances"

\* a URL: a str given by its pieces
Url(pieces) == Str(pieces)

\* the county table asked before the city table
get_municode_link_county_first(county_name, city) ==
    LET ci == IF Truthy(city) THEN ToUpper(Strip(city.s)) ELSE <<>>
        co == Title(Strip(county_name))
    IN  IF co \in DOMAIN county_municodes THEN Url(<<county_municodes[co]>>)
        ELSE IF ci \in DOMAIN city_municodes THEN Url(<<city_municodes[ci]>>)
        ELSE PyNone

\* get_municode_link(county, city): county a str, city a str or None
get_municode_link(county_name, city) ==
    LET ci == IF Truthy(city) THEN ToUpper(Strip(city.s)) ELSE <<>>
        co == Title(Strip(county_name))
    IN  IF ci \in DOMAIN city_municodes THEN Url(<<city_municodes[ci]>>)
        ELSE IF co \in DOMAIN county_municodes THEN Url(<<county_municodes[co]>>)
        ELSE PyNone

\* search_municode(jurisdiction, search_term)
search_municode(jurisdiction, search_term) ==
    LET base_link == get_municode_link(jurisdiction, Str(<<>>))
    IN  IF Truthy(base_link)
            THEN Url(base_link.s \o <<"?searchText=">> \o Replace(search_term, " ", "+"))
            ELSE PyNone

\* the value of a call that has not returned
Pending == [t |-> "pending"]

\* the city argument: None, '', the table's names in any letter case with
\* blanks around, and a city the table does not have
LinkCities ==
    LET Cased == UNION {{Str(n), Str(ToLower(n)), Str(Title(n)), Str(<<" ">> \o n \o <<" ">>)} :
                            n \in DOMAIN city_municodes \cup {TxtLargo}}
    IN  {PyNone, Str(<<>>), Str(<<" ">>)} \cup Cased

\* the jurisdiction argument: county and city names
Jurisdictions ==
    CountyInputs \cup {c.s : c \in LinkCities \ {PyNone}}

SearchTerms == {<<>>, TxtR1, TxtParkingRatio}

LinkCalls ==
    {[fn |-> "get_municode_link", args |-> <<c, ci>>, value |-> Pending] :
        c \in CountyInputs, ci \in LinkCities}
    \cup {[fn |-> "search_municode", args |-> <<j, t>>, value |-> Pending] :
        j \in Jurisdictions, t \in SearchTerms}

LinkInit ==
    /\ NoCall
    /\ municode \in LinkCalls
    /\ ws = PyNone
    /\ session_state = InitialSession
    /\ report = PyNone

\* what a step of municode_parser.py leaves alone
LinkFrame ==
    UNCHANGED <<pc, county, parcel_id, attempt, requests, response, parcel_data,
                object_id, pao_data, outcome, result, history, ws,
                session_state, report>>

GetMunicodeLink ==
    /\ municode.fn = "get_municode_link"
    /\ municode.value = Pending
    /\ municode' = [municode EXCEPT
                      !.value = get_municode_link(municode.args[1], municode.args[2])]
    /\ LinkFrame

SearchMunicode ==
    /\ municode.fn = "search_municode"
    /\ municode.value = Pending
    /\ municode' = [municode EXCEPT
                      !.value = search_municode(municode.args[1], municode.args[2])]
    /\ LinkFrame

LinkNext ==
    \/ GetMunicodeLink
    \/ SearchMunicode

---------------------------------------------------------------------------
(* excel_generator.py *)

TxtNotAvailable ==
    <<"N", "o", "t", " ", "A", "v", "a", "i", "l", "a", "b", "l", "e">>

TxtNone ==
    <<"N", "o", "n", "e">>

TxtCommaSpace ==
    <<",", " ">>

TxtCommaFL ==
    <<",", " ", "F", "L", " ">>

TxtAcresUnit ==
    <<" ", "a", "c", "r", "e", "s">>

TxtSqFt ==
    <<" ", "s", "q", " ", "f", "t">>

TxtBlockOpen ==
    <<"B", "l", "o", "c", "k", " ">>

TxtLotOpen ==
    <<" ", "/", " ", "L", "o", "t", " ">>

TxtRequiresLookup ==
    <<"R", "e", "q", "u", "i", "r", "e", "s", " ", "s", "e", "p", "a", "r",
    "a", "t", "e", " ", "l", "o", "o", "k", "u", "p">>

TxtTBD ==
    <<"T", "B", "D">>

TxtFt ==
    <<" ", "f", "t">>

TxtPerAda ==
    <<"P", "e", "r", " ", "A", "D", "A", "/", "F", "B", "C">>

TxtMunicodeDash ==
    <<"M", "u", "n", "i", "c", "o", "d", "e", " ", "-", " ">>

TxtLdc ==
    <<" ", "L", "a", "n", "d", " ", "D", "e", "v", "e", "l", "o", "p", "m",
    "e", "n", "t", " ", "C", "o", "d", "e">>

TxtCounty ==
    <<"C", "o", "u", "n", "t", "y">>

TxtSourceNote ==
    <<"P", "r", "o", "p", "e", "r", "t", "y", " ", "d", "a", "t", "a", " ",
    "f", "r", "o", "m", " ", "c", "o", "u", "n", "t", "y", " ", "p", "r",
    "o", "p", "e", "r", "t", "y", " ", "a", "p", "p", "r", "a", "i", "s",
    "e", "r", " ", "v", "i", "a", " ", "S", "W", "F", "W", "M", "D", " ",
    "A", "r", "c", "G", "I", "S", " ", "s", "e", "r", "v", "i", "c", "e">>

TxtSaleDate ==
    <<"2", "0", "2", "0", "-", "0", "1", "-", "1", "5">>

TxtPinellasCounty ==
    <<"P", "i", "n", "e", "l", "l", "a", "s", " ", "C", "o", "u", "n", "t",
    "y">>

TxtFL ==
    <<"F", "L">>

TxtZip ==
    <<"3", "3", "7", "5", "5">>

TxtTwp ==
    <<"2", "9", "S">>

TxtUrbanResidential ==
    <<"U", "r", "b", "a", "n", " ", "R", "e", "s", "i", "d", "e", "n", "t",
    "i", "a", "l">>

RECURSIVE Pow10(_)
Pow10(e) == IF e = 0 THEN 1 ELSE 10 * Pow10(e - 1)

\* the digits ds grouped in threes from the right
RECURSIVE Grouped(_)
Grouped(ds) ==
    IF Len(ds) <= 3 THEN ds
    ELSE Grouped(SubSeq(ds, 1, Len(ds) - 3)) \o <<",">> \o SubSeq(ds, Len(ds) - 2, Len(ds))

\* n as k digits, zeros in front
RECURSIVE Padded(_, _)
Padded(n, k) ==
    IF k = 0 THEN <<>>
    ELSE Padded(n \div 10, k - 1) \o <<DigitChars[(n % 10) + 1]>>

\* the number v in units of 10^-d, rounded to nearest, ties to even
Rounded(v, d) ==
    IF v.e <= d THEN v.m * Pow10(d - v.e)
    ELSE LET p == Pow10(v.e - d)
             q == v.m \div p
             r == v.m % p
         IN  IF 2 * r > p \/ (2 * r = p /\ q % 2 = 1) THEN q + 1 ELSE q

\* f"{v:.2f}"
Fixed2(v) ==
    LET n == Rounded(v, 2)
    IN  DigitsOf(n \div 100) \o <<".">> \o Padded(n % 100, 2)

\* f"{v:,.0f}"
Comma0(v) == Grouped(DigitsOf(Rounded(v, 0)))

\* f"{v:,}": an int, or a float with its fraction digits
Comma(v) ==
    IF v.e = 0 THEN Grouped(DigitsOf(v.m))
    ELSE Grouped(DigitsOf(v.m \div Pow10(v.e))) \o <<".">> \o Padded(v.m % Pow10(v.e), v.e)

\* f"{v}" and str(v)
FStr(v) ==
    CASE v.t = "None" -> TxtNone
      [] v.t = "str"  -> v.s
      [] v.t = "num"  -> IF v.e = 0 THEN DigitsOf(v.m)
                         ELSE DigitsOf(v.m \div Pow10(v.e)) \o <<".">>
                              \o Padded(v.m % Pow10(v.e), v.e)

\* d.get(k)
Get1(d, k) == Get(d, k, PyNone)

\* add_section_header(title)
SectionHeader(title) == [kind |-> "section", label |-> title, value |-> PyNone]

\* add_data_row(label, value)
DataRow(label, value) ==
    [kind |-> "data", label |-> label,
     value |-> IF Truthy(value) THEN value ELSE Str(TxtNotAvailable)]

\* current_row += 1
EmptyRow == [kind |-> "empty", label |-> "", value |-> PyNone]

When(cond, items) == IF cond THEN items ELSE <<>>

\* lines 112-136
PropertyInfoItems(pd) ==
    <<SectionHeader("PROPERTY INFORMATION"),
      DataRow("Owner Name", Get(pd, "owner", Str(<<>>))),
      DataRow("Owner Address", Get(pd, "owner_address", Str(<<>>))),
      DataRow("Owner City/State/Zip",
              IF Truthy(Get1(pd, "owner_city"))
                  THEN Str(FStr(Get(pd, "owner_city", Str(<<>>))) \o TxtCommaSpace
                           \o FStr(Get(pd, "owner_state", Str(<<>>))) \o <<" ">>
                           \o FStr(Get(pd, "owner_zip", Str(<<>>))))
                  ELSE Str(<<>>)),
      DataRow("Property Address", Get(pd, "address", Str(<<>>))),
      DataRow("Property City/Zip",
              Str(FStr(Get(pd, "city", Str(<<>>))) \o TxtCommaFL
                  \o FStr(Get(pd, "zip", Str(<<>>))))),
      DataRow("Legal Description", Get(pd, "legal_description", Str(<<>>)))>>
    \o When(Truthy(Get1(pd, "legal_description2")),
            <<DataRow("Legal Description (cont.)", Get(pd, "legal_description2", Str(<<>>)))>>)
    \o <<EmptyRow>>

\* lines 142-159: emitted whatever the flags are
SiteItems(pd) ==
    <<DataRow("Site Area",
              IF Truthy(Get(pd, "acres", PyInt(0)))
                  THEN Str(Fixed2(Get(pd, "acres", PyInt(0))) \o TxtAcresUnit)
                  ELSE Str(TxtNotAvailable))>>
    \o When(Truthy(Get(pd, "area_sqft", PyInt(0))),
            <<DataRow("Site Area (sq ft)",
                      Str(Comma0(Get(pd, "area_sqft", PyInt(0))) \o TxtSqFt))>>)
    \o <<DataRow("Section/Township/Range",
                 Str(<<"S">> \o FStr(Get(pd, "section", Str(<<>>)))
                     \o <<"-", "T">> \o FStr(Get(pd, "township", Str(<<>>)))
                     \o <<"-", "R">> \o FStr(Get(pd, "range", Str(<<>>)))))>>
    \o When(Truthy(Get1(pd, "subdivision")),
            <<DataRow("Subdivision", Get(pd, "subdivision", Str(<<>>)))>>)
    \o When(Truthy(Get1(pd, "block")) \/ Truthy(Get1(pd, "lot")),
            <<DataRow("Block/Lot",
                      Str(TxtBlockOpen \o FStr(Get(pd, "block", Str(TxtNA)))
                          \o TxtLotOpen \o FStr(Get(pd, "lot", Str(TxtNA)))))>>)
    \o <<EmptyRow>>

\* lines 161-177
ZoningItems(pd, zd) ==
    <<SectionHeader("ZONING & LAND USE"),
      DataRow("Current Zoning", Get(pd, "zoning", Str(TxtContactJurisdiction))),
      DataRow("Land Use Description", Get(pd, "land_use", Str(<<>>))),
      DataRow("Land Use Code", Get(pd, "land_use_code", Str(<<>>)))>>
    \o (IF Truthy(zd)
            THEN <<DataRow("Future Land Use", Get(zd, "future_land_use", Str(TxtTBD))),
                   DataRow("FEMA Flood Zone", Get(zd, "fema_flood_zone", Str(TxtTBD)))>>
            ELSE <<DataRow("Future Land Use", Str(TxtRequiresLookup)),
                   DataRow("FEMA Flood Zone", Str(TxtRequiresLookup))>>)
    \o <<EmptyRow>>

\* f"{setbacks.get(side, 'TBD')} ft" if setbacks.get(side) else "TBD"
Setback(setbacks, side) ==
    IF Truthy(Get1(setbacks, side))
        THEN Str(FStr(Get(setbacks, side, Str(TxtTBD))) \o TxtFt)
        ELSE Str(TxtTBD)

\* lines 180-200
BuildingItems(zd) ==
    LET setbacks == Get(zd, "setbacks", EmptyDict)
    IN  <<SectionHeader("BUILDING REQUIREMENTS"),
          DataRow("Setback - Front", Setback(setbacks, "front")),
          DataRow("Setback - Rear", Setback(setbacks, "rear")),
          DataRow("Setback - Side", Setback(setbacks, "side")),
          DataRow("Setback - Street Side", Setback(setbacks, "street_side")),
          DataRow("Maximum Building Height", Get(zd, "max_height", Str(TxtTBD))),
          DataRow("Maximum Lot Coverage", Get(zd, "max_coverage", Str(TxtTBD))),
          EmptyRow,
          SectionHeader("PARKING REQUIREMENTS"),
          DataRow("Standard Parking", Get(zd, "parking_standard", Str(TxtTBD))),
          DataRow("Bicycle Parking", Get(zd, "bicycle_parking", Str(TxtTBD))),
          DataRow("Accessible Parking", Get(zd, "accessible_parking", Str(TxtPerAda)))>>

\* lines 205-221
CharacteristicsItems(pd) ==
    <<SectionHeader("PROPERTY CHARACTERISTICS")>>
    \o When(Truthy(Get1(pd, "year_built")),
            <<DataRow("Year Built", Str(FStr(Get(pd, "year_built", Str(<<>>)))))>>)
    \o When(Truthy(Get1(pd, "num_buildings")),
            <<DataRow("Number of Buildings", Str(FStr(Get(pd, "num_buildings", Str(<<>>)))))>>)
    \o When(Truthy(Get1(pd, "num_units")),
            <<DataRow("Number of Units", Str(FStr(Get(pd, "num_units", Str(<<>>)))))>>)
    \o When(Truthy(Get1(pd, "total_living_area")),
            <<DataRow("Total Living Area",
                      Str(Comma(Get(pd, "total_living_area", Str(<<>>))) \o TxtSqFt))>>)
    \o <<EmptyRow>>

\* f"${v:,}" if v else "Not Available"
Dollars(v) == IF Truthy(v) THEN Str(<<"$">> \o Comma(v)) ELSE Str(TxtNotAvailable)

\* lines 223-240
AssessmentItems(pd) ==
    <<SectionHeader("ASSESSMENT VALUES"),
      DataRow("Assessed Land Value", Dollars(Get(pd, "assessed_land", PyInt(0)))),
      DataRow("Assessed Building Value", Dollars(Get(pd, "assessed_building", PyInt(0)))),
      DataRow("Total Assessed Value", Dollars(Get(pd, "assessed_total", PyInt(0))))>>
    \o When(Truthy(Get(pd, "market_value", PyInt(0))),
            <<DataRow("Market Value", Dollars(Get(pd, "market_value", PyInt(0))))>>)
    \o <<EmptyRow>>

\* lines 242-252
SalesItems(pd) ==
    When(Truthy(Get1(pd, "sale_date")) \/ Truthy(Get1(pd, "sale_amount")),
         <<SectionHeader("SALES HISTORY"),
           DataRow("Most Recent Sale Date", Get(pd, "sale_date", Str(TxtNotAvailable))),
           DataRow("Most Recent Sale Amount", Dollars(Get(pd, "sale_amount", PyInt(0)))),
           EmptyRow>>)

\* lines 254-263
LinksItems(pd, zd) ==
    <<SectionHeader("LINKS & REFERENCES")>>
    \o When(Truthy(Get1(pd, "parcel_link")),
            <<DataRow("Property Appraiser Link", Get(pd, "parcel_link", Str(<<>>)))>>)
    \o <<DataRow("Source", Str(TxtSourceNote))>>
    \o When(Truthy(zd),
            <<DataRow("Zoning Source",
                      Str(TxtMunicodeDash \o FStr(Get(zd, "jurisdiction", Str(TxtCounty)))
                          \o TxtLdc))>>)

\* the fields formatted with a number format, where the format is reached
FormattedFields(pd) ==
    {"acres", "area_sqft", "total_living_area", "assessed_land",
     "assessed_building", "assessed_total", "market_value"}
    \cup (IF Truthy(Get1(pd, "sale_date")) \/ Truthy(Get1(pd, "sale_amount"))
             THEN {"sale_amount"} ELSE {})

\* a number format applied to a value that is no number raises ValueError
FormatRaises(pd) ==
    \E f \in FormattedFields(pd) :
        Truthy(Get1(pd, f)) /\ Get1(pd, f).t # "num"

\* sections.get(key, True), after the default of lines 26-36
Flag(sections, key) ==
    IF sections = PyNone THEN TRUE
    ELSE IF key \in DOMAIN sections.kv THEN sections.kv[key]
    ELSE TRUE

\* what is written below the main header, in order (lines 112-263)
Items(pd, zd, sections) ==
    When(Flag(sections, "property_info"), PropertyInfoItems(pd))
    \o When(Flag(sections, "site_characteristics"),
            <<SectionHeader("SITE CHARACTERISTICS")>>)
    \o SiteItems(pd)
    \o ZoningItems(pd, zd)
    \o When(Truthy(zd), BuildingItems(zd))
    \o <<EmptyRow>>
    \o CharacteristicsItems(pd)
    \o AssessmentItems(pd)
    \o SalesItems(pd)
    \o LinksItems(pd, zd)

\* the cells of the sheet: each item at current_row, which starts at 3 below
\* the main header of row 1 and moves on by one per item
Sheet(items) ==
    LET Row(k) == [row |-> k + 2, kind |-> items[k].kind,
                   label |-> items[k].label, value |-> items[k].value]
        placed == [k \in 1..Len(items) |-> Row(k)]
    IN  <<[row |-> 1, kind |-> "main", label |-> "PROPERTY INFORMATION REPORT",
           value |-> PyNone]>>
        \o SelectSeq(placed, LAMBDA c : c.kind # "empty")
        \o <<[row |-> Len(items) + 5, kind |-> "disclaimer", label |-> "DISCLAIMER",
              value |-> PyNone]>>

\* generate_parcel_report(property_data, zoning_data, output_path, sections)
generate_parcel_report(pd, zd, output_path, sections) ==
    IF FormatRaises(pd)
        THEN [t |-> "raised", path |-> <<>>, saved |-> <<>>]
        ELSE [t |-> "returned", path |-> output_path,
              saved |-> Sheet(Items(pd, zd, sections))]

\* the sample data of lines 282-305, shortened
sample_property_data ==
    Dict([owner |-> Str(TxtAcme), owner_address |-> Str(TxtMainSt),
          owner_city |-> Str(TxtStPetersburgDot), owner_state |-> Str(TxtFL),
          owner_zip |-> Str(TxtZip), address |-> Str(TxtOakAve),
          city |-> Str(TxtClearwater), zip |-> Str(TxtZip),
          legal_description |-> Str(TxtLot7), acres |-> Num(25, 1),
          area_sqft |-> PyInt(108900), zoning |-> Str(TxtR1),
          assessed_land |-> PyInt(450000), assessed_building |-> PyInt(1250000),
          assessed_total |-> PyInt(1700000), section |-> Str(<<"1", "2">>),
          township |-> Str(TxtTwp), year_built |-> PyInt(2018),
          num_units |-> PyInt(24)])

\* the sample data of lines 307-321, shortened
sample_zoning_data ==
    Dict([future_land_use |-> Str(TxtUrbanResidential),
          setbacks |-> Dict([front |-> PyInt(25), rear |-> PyInt(20)]),
          jurisdiction |-> Str(TxtPinellasCounty)])

\* property data as the adapters and a caller can hand it over: the sample, a
\* sold parcel with a lot, a result with a field None, an empty dict, and an
\* area that is a string
ReportProperties ==
    {sample_property_data,
     Dict([owner |-> Str(TxtAcme), acres |-> Num(125, 3), lot |-> Str(<<"7">>),
           subdivision |-> Str(TxtLargo), legal_description2 |-> Str(TxtLot7),
           total_living_area |-> Num(12345, 1), market_value |-> PyInt(999),
           sale_date |-> Str(TxtSaleDate), sale_amount |-> PyInt(250000),
           parcel_link |-> Str(TxtPaoLink)]),
     Dict([owner |-> PyNone, acres |-> PyNone, sale_amount |-> PyInt(1000)]),
     EmptyDict,
     Dict([acres |-> Str(<<"2", ".", "5">>)])}

ReportZonings == {PyNone, EmptyDict, sample_zoning_data}

\* the sections argument: None, every dict of the eight flags, a dict of one
ReportSections ==
    {PyNone, Dict([k \in {"property_info"} |-> FALSE])}
    \cup {Dict(f) : f \in [SectionSet -> BOOLEAN]}

ReportPath == <<"r", ".", "x", "l", "s", "x">>

ReportCalls ==
    {[args |-> <<pd, zd, ReportPath, s>>, value |-> Pending] :
        pd \in ReportProperties, zd \in ReportZonings, s \in ReportSections}

ReportInit ==
    /\ NoCall
    /\ municode = PyNone
    /\ ws \in ReportCalls
    /\ session_state = InitialSession
    /\ report = PyNone

GenerateParcelReport ==
    /\ ws # PyNone
    /\ ws.value = Pending
    /\ ws' = [ws EXCEPT !.value = generate_parcel_report(ws.args[1], ws.args[2],
                                                         ws.args[3], ws.args[4])]
    /\ UNCHANGED <<pc, county, parcel_id, attempt, requests, response, parcel_data,
                   object_id, pao_data, outcome, result, history, municode,
                   session_state, report>>

ReportNext == GenerateParcelReport

---------------------------------------------------------------------------
(* app.py: the session state and the handlers of the buttons.  One script run
   handles one widget event; the values of the county and parcel ID widgets are
   inputs of the run. *)

\* most lookups recorded in lookup_history in a run of the model
MaxLookups == 2

\* most entries of favorites in a run of the model
MaxFavorites == 2

\* options of the county selectbox that are chosen
SessionCounties == {TxtHillsborough, TxtPinellas, TxtSarasota}

\* what is typed into the parcel ID field
SessionIds == {<<"1">>}

\* the checkboxes that are clicked
ToggleKeys == {"sales_history"}

SessionSwfwmdResponses ==
    {Exception(TxtTimedOut),
     HttpResponse(200, Json([features |-> <<Feature("OWNERNAME" :> Str(TxtAcme))>>]))}

SessionParcelResponses ==
    {Exception(TxtTimedOut),
     HttpResponse(200, Json([features |->
        <<Feature(KObjectId :> PyInt(42) @@ KStatedArea :> Str(TxtAcres250))>>])),
     HttpResponse(200, Json([features |-> <<Feature(KStatedArea :> PyNone)>>]))}

SessionRelatedResponses == {Exception(TxtTimedOut)}

\* st.session_state.property_data is truthy: a result dict is never empty
Loaded(s) == s.property_data # PyNone

\* the script reaches the widgets below the Property Overview: line 259
\* formats data.get('acres', 0) with .2f, which raises for None and for a str
Renders(s) == Loaded(s) => s.property_data.acres.t = "num"

\* x in l
InList(x, l) == \E i \in DOMAIN l : l[i] = x

\* l.pop(idx)
Pop(l, idx) == SubSeq(l, 1, idx - 1) \o SubSeq(l, idx + 1, Len(l))

\* the dict appended to lookup_history; timestamp counts the lookups recorded
HistoryEntry(s, c, p, r) ==
    [county |-> c, parcel_id |-> p,
     timestamp |-> Len(s.lookup_history) + 1,
     address |-> IF "address" \in DOMAIN r THEN r.address ELSE Str(TxtNA)]

\* the dict appended to favorites
FavoriteEntry(c, p, data) ==
    [county |-> c, parcel_id |-> p, address |-> data.address, data |-> data]

\* a handler that records the lookup whatever its outcome
AfterLookupRecordsAll(s, c, p, oc, r) ==
    IF oc = "returned" /\ r.success
        THEN [s EXCEPT !.property_data = r,
                       !.lookup_history = Append(@, HistoryEntry(s, c, p, r))]
        ELSE [s EXCEPT !.lookup_history = Append(@, HistoryEntry(s, c, p, r))]

\* lines 222-242: the session state after lookup_property has returned r or
\* raised (oc)
AfterLookup(s, c, p, oc, r) ==
    IF oc = "returned" /\ r.success
        THEN [s EXCEPT !.property_data = r,
                       !.lookup_history = Append(@, HistoryEntry(s, c, p, r))]
        ELSE s

\* a Generate button that is never disabled
generate_always(sections) == TRUE

\* any(st.session_state.report_sections.values())
generate_enabled(sections) == \E k \in DOMAIN sections : sections[k]

\* the summary_data of lines 453-455
SummaryCounty(s) ==
    IF s.lookup_history # <<>>
        THEN s.lookup_history[Len(s.lookup_history)].county ELSE TxtNA

SummaryParcelId(s) ==
    IF s.lookup_history # <<>>
        THEN s.lookup_history[Len(s.lookup_history)].parcel_id ELSE TxtNA

\* what a handler of the page leaves alone: no call of lookup_property runs
PageFrame ==
    UNCHANGED <<pc, county, parcel_id, attempt, requests, response, parcel_data,
                object_id, pao_data, outcome, result, history, municode, ws>>

\* the Lookup button (disabled while parcel_id is empty): lookup_property is
\* called with the widgets' values
PressLookup(c, p) ==
    /\ p # <<>>
    /\ Len(session_state.lookup_history) < MaxLookups
    /\ LookupProperty(c, p)
    /\ county_arg' = c
    /\ report' = PyNone
    /\ UNCHANGED <<answers, reference, municode, ws, session_state>>

\* lines 223-242: the handler takes the result or catches the exception
LookupHandler ==
    /\ pc = "done"
    /\ session_state' = AfterLookup(session_state, county_arg, parcel_id,
                                    outcome, result)
    /\ Return
    /\ county_arg' = <<>>
    /\ UNCHANGED <<answers, reference, municode, ws, report>>

\* the Clear Data button of the sidebar
ClearData ==
    /\ pc = "idle"
    /\ Loaded(session_state)
    /\ session_state' = [session_state EXCEPT !.property_data = PyNone]
    /\ report' = PyNone
    /\ PageFrame

\* the Add to Favorites button; c and p are what the widgets hold now
AddToFavorites(c, p) ==
    /\ pc = "idle"
    /\ Loaded(session_state)
    /\ Renders(session_state)
    /\ Len(session_state.favorites) < MaxFavorites
    /\ session_state' =
          IF ~InList(session_state.property_data, session_state.favorites)
              THEN [session_state EXCEPT !.favorites =
                        Append(@, FavoriteEntry(c, p, session_state.property_data))]
              ELSE session_state
    /\ report' = PyNone
    /\ PageFrame

\* the Load button of favorite idx
LoadFavorite(idx) ==
    /\ pc = "idle"
    /\ Renders(session_state)
    /\ idx \in DOMAIN session_state.favorites
    /\ session_state' = [session_state EXCEPT
                            !.property_data = session_state.favorites[idx].data]
    /\ report' = PyNone
    /\ PageFrame

\* the Remove button of favorite idx
RemoveFavorite(idx) ==
    /\ pc = "idle"
    /\ Renders(session_state)
    /\ idx \in DOMAIN session_state.favorites
    /\ session_state' = [session_state EXCEPT !.favorites = Pop(@, idx)]
    /\ report' = PyNone
    /\ PageFrame

\* a checkbox of the Report Sections is clicked: line 392 stores its value
ToggleSection(key) ==
    /\ pc = "idle"
    /\ Loaded(session_state)
    /\ Renders(session_state)
    /\ session_state' = [session_state EXCEPT !.report_sections[key] = ~@]
    /\ report' = PyNone
    /\ PageFrame

\* Select All (b = TRUE) and Clear All (b = FALSE): every flag is set and the
\* script is run again, where line 392 stores what the checkboxes return.  A
\* checkbox that has a key returns the new value or keeps the one it had,
\* depending on the Streamlit version
SetAll(b) ==
    /\ pc = "idle"
    /\ Loaded(session_state)
    /\ Renders(session_state)
    /\ \/ session_state' = [session_state EXCEPT !.report_sections = AllSections(b)]
       \/ session_state' = session_state
    /\ report' = PyNone
    /\ PageFrame

\* the Generate Report button: below the guard of line 371, disabled unless
\* generate_enabled; report is the call of generate_parcel_report this script
\* run makes, None in a run that makes none
Generate ==
    /\ pc = "idle"
    /\ Loaded(session_state)
    /\ Renders(session_state)
    /\ generate_enabled(session_state.report_sections)
    /\ report' = [property_data |-> session_state.property_data,
                  zoning_data |-> PyNone,
                  sections |-> session_state.report_sections,
                  value |-> generate_parcel_report(
                                Dict(session_state.property_data), PyNone,
                                ReportPath, Dict(session_state.report_sections))]
    /\ UNCHANGED session_state
    /\ PageFrame

SessionNext ==
    \/ pc = "idle"
       /\ \E c \in SessionCounties, p \in SessionIds : PressLookup(c, p)
    \/ HillsboroughRequest /\ UNCHANGED others
    \/ pc = "hillsborough_wait"
       /\ \E r \in SessionSwfwmdResponses : HillsboroughResponse(r) /\ UNCHANGED others
    \/ PinellasRequest /\ UNCHANGED others
    \/ pc = "pinellas_wait"
       /\ \E r \in SessionParcelResponses : PinellasResponse(r) /\ UNCHANGED others
    \/ PinellasRelatedRequest /\ UNCHANGED others
    \/ pc = "pinellas_related_wait"
       /\ \E r \in SessionRelatedResponses :
             PinellasRelatedResponse(r) /\ UNCHANGED others
    \/ LookupHandler
    \/ ClearData
    \/ pc = "idle"
       /\ \E c \in SessionCounties, p \in SessionIds : AddToFavorites(c, p)
    \/ \E idx \in 1..MaxFavorites + 1 : LoadFavorite(idx)
    \/ \E idx \in 1..MaxFavorites + 1 : RemoveFavorite(idx)
    \/ \E key \in ToggleKeys : ToggleSection(key)
    \/ \E b \in BOOLEAN : SetAll(b)
    \/ Generate

---------------------------------------------------------------------------
(* Vocabulary of the properties *)

\* the keys every adapter's success dict carries besides success and error
CanonicalFields ==
    {"address", "city", "zip", "owner", "owner_address", "owner_city",
     "owner_state", "owner_zip", "legal_description", "legal_description2",
     "acres", "area_sqft", "zoning", "land_use", "land_use_code",
     "assessed_land", "assessed_building", "assessed_total", "market_value",
     "subdivision", "block", "lot", "section", "township", "range",
     "year_built", "num_buildings", "num_units", "total_living_area",
     "sale_date", "sale_amount", "parcel_link"}

\* Success(CanonicalRecord)
IsSuccess(r) ==
    /\ r.success = TRUE
    /\ r.error = PyNone
    /\ CanonicalFields \subseteq DOMAIN r

\* Failure(message)
IsFailure(r) ==
    /\ r.success = FALSE
    /\ r.error.t = "str"
    /\ r.error.s # <<>>
    /\ DOMAIN r \cap CanonicalFields = {}

\* the response is a 200 JSON document with a non-empty feature list
ReturnsFeatures(r) ==
    /\ r.kind = "http"
    /\ r.status = 200
    /\ r.body.json
    /\ "features" \in DOMAIN r.body.data
    /\ r.body.data.features # <<>>

MultiCandidate == Adapter(county) \in {"pasco", "pinellas"}

\* a step that receives the answer to a candidate's request
CandidateAnswered ==
    /\ pc \in {"pasco_wait", "pinellas_wait"}
    /\ pc' # pc

\* the not-found Failure of the adapter in use
NotFoundResult ==
    IF Adapter(county) = "pasco"
        THEN PascoNotFound(parcel_id)
        ELSE PinellasNotFound(parcel_id)

\* the requests sent to the candidate endpoint of the adapter in use
CandidateRequests ==
    SelectSeq(requests, LAMBDA q : q.url \in {PascoUrl, PinellasParcelUrl})

---------------------------------------------------------------------------
(* C1: for every input and every upstream behaviour lookup_property returns
   a result value; no exception crosses the adapter boundary. *)
C1_NoExceptionEscapes == outcome # "raised"

(* C2: for every county name that is not in the resolver table after strip
   and title-casing (Sarasota included) the call returns at once a Failure
   whose message contains the county name, and does not raise. *)
C2_UnsupportedCountyFails ==
    (pc # "idle" /\ Adapter(county) = "none") =>
        /\ pc = "done"
        /\ outcome = "returned"
        /\ IsFailure(result)
        /\ Contains(result.error.s, county)

C2_Witness ==
    /\ pc = "done"
    /\ county = TxtAtlantis
    /\ outcome = "returned"
    /\ Contains(result.error.s, TxtAtlantis)

(* C3: in Pasco and Pinellas the candidates are requested in list order, and
   the first candidate that returns a non-empty feature list ends the lookup
   in FOUND with that candidate's first feature: no later candidate is
   requested and nothing of another candidate is merged in. *)
C3_FirstHitWins ==
    [][
        /\ (pc \in {"pasco", "pinellas"} /\ pc' \in {"pasco_wait", "pinellas_wait"}) =>
            /\ Len(requests) = attempt - 1
            /\ (response # PyNone => ~ReturnsFeatures(response))
            /\ requests' = Append(requests,
                  IF pc = "pasco"
                    THEN QueryRequest(PascoUrl, query_attempts(parcel_id)[attempt][1],
                                      query_attempts(parcel_id)[attempt][2])
                    ELSE QueryRequest(PinellasParcelUrl,
                                      field_variations(parcel_id)[attempt][1],
                                      field_variations(parcel_id)[attempt][2]))
        /\ (pc = "pasco_wait" /\ pc' # pc /\ ReturnsFeatures(response')) =>
            /\ pc' = "done"
            /\ outcome' = "returned"
            /\ result' = MapPasco(response'.body.data.features[1].attributes)
        /\ (pc = "pinellas_wait" /\ pc' # pc /\ ReturnsFeatures(response')) =>
            /\ pc' \in {"pinellas_related", "done"}
            /\ parcel_data' = response'.body.data.features[1].attributes
            /\ ~(outcome' = "returned" /\ result' = PinellasNotFound(parcel_id))
    ]_vars

\* a candidate after the first returned a feature: the call produced Success
C4_LaterCandidateSucceeds ==
    (pc = "done" /\ MultiCandidate /\ attempt > 1
     /\ ((Adapter(county) = "pasco" /\ ReturnsFeatures(response))
         \/ (Adapter(county) = "pinellas" /\ parcel_data # PyNone))) =>
        (outcome = "returned" /\ IsSuccess(result))

(* C4: a candidate whose request fails or returns zero features never aborts
   the lookup: the engine goes on to candidate i+1, and a later candidate
   that returns a feature still produces Success. *)
C4_FailureAdvances ==
    [][
        /\ (CandidateAnswered /\ ~ReturnsFeatures(response') /\ attempt < 4) =>
            /\ attempt' = attempt + 1
            /\ pc' \in {"pasco", "pinellas"}
            /\ outcome' = "none"
        /\ C4_LaterCandidateSucceeds'
    ]_vars

(* C5: the not-found Failure of a multi-candidate adapter is returned only
   after all four candidates have been requested, never after fewer; and
   when every candidate errors or returns zero features the result is that
   Failure. *)
C5_Exhaustion ==
    (pc = "done" /\ MultiCandidate) =>
        /\ (outcome = "returned" /\ result = NotFoundResult) =>
                Len(CandidateRequests) = 4
        /\ (Len(requests) = 4 /\ attempt = 4 /\ ~ReturnsFeatures(response)) =>
                (outcome = "returned" /\ result = NotFoundResult)

\* the related-records query failed or carries no related record
NoRelatedRecord(r) ==
    \/ r.kind = "exception"
    \/ r.status # 200
    \/ ~r.body.json
    \/ "relatedRecordGroups" \notin DOMAIN r.body.data
    \/ \A k \in 1..Len(r.body.data.relatedRecordGroups) :
          LET g == r.body.data.relatedRecordGroups[k]
          IN  "relatedRecords" \notin DOMAIN g \/ g.relatedRecords = <<>>

\* the fields that only the assessor table feeds are at their defaults
AssessorDefaults(r) ==
    /\ \A f \in {"address", "zip", "owner", "owner_address", "owner_city",
                 "owner_state", "owner_zip", "year_built", "sale_date"} :
          r[f] = Str(<<>>)
    /\ \A f \in {"assessed_land", "assessed_building", "assessed_total",
                 "market_value", "num_buildings", "num_units",
                 "total_living_area", "sale_amount"} :
          r[f] = PyInt(0)

\* the zoning and jurisdiction of the matched feature are in the record
ParcelLayerFields(r, pd) ==
    /\ (KZoneClass \in DOMAIN pd.kv => r.zoning = pd.kv[KZoneClass])
    /\ ((KJurisdiction \in DOMAIN pd.kv /\ Truthy(pd.kv[KJurisdiction])) =>
            r.city = pd.kv[KJurisdiction])

(* C6: Pinellas two-step join: when a parcel-layer candidate matched and the
   related-records query errors, answers non-200 or carries no related
   record, the lookup returns Success with the parcel-layer fields filled
   from the matched feature and every assessor-only field at its default
   ('' or 0); it is never a Failure. *)
C6_PartialJoinSucceeds ==
    (/\ pc = "done"
     /\ Adapter(county) = "pinellas"
     /\ requests # <<>>
     /\ requests[Len(requests)].url = PinellasRelatedUrl
     /\ NoRelatedRecord(response)) =>
        /\ outcome = "returned"
        /\ IsSuccess(result)
        /\ AssessorDefaults(result)
        /\ ParcelLayerFields(result, parcel_data)

(* C7: every value lookup_property returns is exactly one variant: success
   True with error None and the canonical fields, or success False with a
   non-empty message and no canonical field. *)
C7_ExactlyOneVariant ==
    outcome = "returned" =>
        \/ (IsSuccess(result) /\ ~IsFailure(result))
        \/ (IsFailure(result) /\ ~IsSuccess(result))

C7_Witness ==
    /\ pc = "done"
    /\ Adapter(county) = "pinellas"
    /\ outcome = "returned"
    /\ IsSuccess(result)
    /\ result.owner = Str(TxtAcme)

\* the leading numeric token of the stated area, 0 when there is none
LeadingNumberOrZero(pd) ==
    IF KStatedArea \notin DOMAIN pd.kv THEN PyInt(0)
    ELSE LET v == pd.kv[KStatedArea]
         IN  IF v.t = "str" /\ Split(v.s) # <<>> /\ FloatOk(Split(v.s)[1])
                THEN FloatOf(Split(v.s)[1])
                ELSE PyInt(0)

(* C8: Pinellas acreage: the acres field is the leading numeric token of the
   raw stated-area string ("2.50 AC" gives 2.5), and 0, without raising,
   when the value is missing, empty or not a number. *)
C8_AcresParsed ==
    (pc = "done" /\ Adapter(county) = "pinellas" /\ Truthy(parcel_data)) =>
        /\ outcome = "returned"
        /\ result.acres = LeadingNumberOrZero(parcel_data)

(* C9: within one call no two HTTP requests carry the same endpoint, field
   name and identifier value, whatever the parcel_id, also one that holds
   no separator. *)
C9_NoRepeatedRequest ==
    \A i, j \in 1..Len(requests) : i # j => requests[i] # requests[j]

(* C10 as stated: in Pasco each field is queried with both forms of the
   identifier, the normalized form first and the form as typed after it. *)
C10_NormalizedThenRaw ==
    Adapter(county) = "pasco" =>
        \A k \in 1..Len(requests) :
            /\ requests[k].value =
                  IF k % 2 = 1 THEN NormalizeParcel(parcel_id) ELSE parcel_id
            /\ (k % 2 = 0 => requests[k].field = requests[k - 1].field)

(* C10 as the code has it: in Pasco each field is queried with both forms of
   the identifier as separate candidates, the form as typed first and the
   normalized form after it; the second field follows the first. *)
C10_RawThenNormalized ==
    Adapter(county) = "pasco" =>
        /\ \A k \in 1..Len(requests) :
            /\ requests[k].value =
                  IF k % 2 = 1 THEN parcel_id ELSE NormalizeParcel(parcel_id)
            /\ (k % 2 = 0 => requests[k].field = requests[k - 1].field)
        /\ (Len(requests) >= 3 => requests[3].field # requests[1].field)

C10_Witness ==
    /\ Adapter(county) = "pasco"
    /\ Len(requests) = 4
    /\ parcel_id # NormalizeParcel(parcel_id)
    /\ requests[1].value # requests[2].value

---------------------------------------------------------------------------
(* The field-name tables, read off the result dict of each adapter: the raw
   keys that feed each canonical field *)

HillsboroughKeys ==
    [address |-> {"SITUSADD1"}, city |-> {"SCITY"}, zip |-> {"SZIP"},
     owner |-> {"OWNERNAME"}, owner_address |-> {"OWNERADD1"},
     owner_city |-> {"OWNERCITY"}, owner_state |-> {"OWNERSTATE"},
     owner_zip |-> {"OWNERZIP"}, legal_description |-> {"LEGDECFULL"},
     legal_description2 |-> {"LEGAL2"}, acres |-> {"ACRES"},
     area_sqft |-> {"AREANO"}, zoning |-> {"ZONING"},
     land_use |-> {"PARUSEDESC"}, land_use_code |-> {"DOR4CODE"},
     assessed_land |-> {"ASSD_LND"}, assessed_building |-> {"ASSD_BLD"},
     assessed_total |-> {"ASSD_TOT"}, market_value |-> {"PARVAL"},
     subdivision |-> {"SUBDIV_NM"}, block |-> {"BLOCK"}, lot |-> {"LOT"},
     section |-> {"S_SECTION"}, township |-> {"S_TOWNSHIP"},
     range |-> {"S_RANGE"}, year_built |-> {"YRBLT_ACT"},
     num_buildings |-> {"NO_BULDNG"}, num_units |-> {"NO_RES_UNITS"},
     total_living_area |-> {"TOT_LVG_AREA"}, sale_date |-> {"SALE1_DATE"},
     sale_amount |-> {"SALE1_AMT"}, parcel_link |-> {"PAWEBPAGE"}]

PascoKeys ==
    [address |-> {"SITUSADD1", "SITEADD"}, city |-> {"SCITY"},
     zip |-> {"SZIP"}, owner |-> {"OWNERNAME"},
     owner_address |-> {"OWNERADD1"}, owner_city |-> {"OWNERCITY"},
     owner_state |-> {"OWNERSTATE"}, owner_zip |-> {"OWNERZIP"},
     legal_description |-> {"LEGDECFULL"}, legal_description2 |-> {"LEGAL2"},
     acres |-> {"ACRES"}, area_sqft |-> {"AREANO"}, zoning |-> {"ZONING"},
     land_use |-> {"PARUSEDESC"}, land_use_code |-> {"DOR4CODE"},
     assessed_land |-> {"ASSD_LND"}, assessed_building |-> {"ASSD_BLD"},
     assessed_total |-> {"ASSD_TOT"}, market_value |-> {"PARVAL"},
     subdivision |-> {"SUBDIV_NM"}, block |-> {"BLOCK"}, lot |-> {"LOT"},
     section |-> {"S_SECTION"}, township |-> {"S_TOWNSHIP"},
     range |-> {"S_RANGE"}, year_built |-> {"YRBLT_ACT"},
     num_buildings |-> {"NO_BULDNG"}, num_units |-> {"NO_RES_UNITS"},
     total_living_area |-> {"TOT_LVG_AREA"}, sale_date |-> {"SALE1_DATE"},
     sale_amount |-> {"SALE1_AMT"}, parcel_link |-> {"PAWEBPAGE"}]

ManateeKeys ==
    [address |-> {"PRIMARY_ADDRESS"}, city |-> {"PROP_CITYNAME"},
     zip |-> {"PROP_ZIP"}, owner |-> {"OWNER"},
     owner_address |-> {"MAILING_ADDRESS"}, owner_city |-> {"MAIL_CITY"},
     owner_state |-> {"MAIL_STATE"}, owner_zip |-> {"MAIL_ZIP"},
     legal_description |-> {"LEGAL_DESCRIPTION"}, legal_description2 |-> {},
     acres |-> {"ACRES"}, area_sqft |-> {"AREA_SQFT"}, zoning |-> {"ZONING"},
     land_use |-> {"FUTURE_LAND_USE"}, land_use_code |-> {"DOR_UC"},
     assessed_land |-> {"LAND_VALUE"}, assessed_building |-> {"BLDG_VALUE"},
     assessed_total |-> {"JUST_VALUE"}, market_value |-> {"MARKET_VALUE"},
     subdivision |-> {"SUBDIVISION"}, block |-> {"BLOCK"}, lot |-> {"LOT"},
     section |-> {"SECTION"}, township |-> {"TOWNSHIP"}, range |-> {"RANGE"},
     year_built |-> {"YR_BLT"}, num_buildings |-> {"NO_BLDG"},
     num_units |-> {"NO_RES_UNTS"}, total_living_area |-> {"TOT_LVG_AREA"},
     sale_date |-> {"SALE_DATE"}, sale_amount |-> {"SALE_PRC"},
     parcel_link |-> {}]

PinellasParcelKeys ==
    [address |-> {}, city |-> {KJurisdiction}, zip |-> {}, owner |-> {},
     owner_address |-> {}, owner_city |-> {}, owner_state |-> {},
     owner_zip |-> {}, legal_description |-> {KLegal},
     legal_description2 |-> {}, acres |-> {KStatedArea}, area_sqft |-> {},
     zoning |-> {KZoneClass}, land_use |-> {KProposedLandUse},
     land_use_code |-> {KPaoUseCode}, assessed_land |-> {},
     assessed_building |-> {}, assessed_total |-> {}, market_value |-> {},
     subdivision |-> {KSubdivision}, block |-> {KBk}, lot |-> {KLot},
     section |-> {KSc}, township |-> {KTw}, range |-> {KRg},
     year_built |-> {}, num_buildings |-> {}, num_units |-> {},
     total_living_area |-> {}, sale_date |-> {}, sale_amount |-> {},
     parcel_link |-> {}, fema_flood_zone |-> {KFloodZone}]

PinellasPaoKeys ==
    [address |-> {"SITUSSTREET"}, city |-> {"SITUSCITY"},
     zip |-> {"SITUSZIP"}, owner |-> {"OWNERNAME"},
     owner_address |-> {"OWNERADD1"}, owner_city |-> {"OWNERCITY"},
     owner_state |-> {"OWNERSTATE"}, owner_zip |-> {"OWNERZIP"},
     legal_description |-> {"LEGALDESC"}, legal_description2 |-> {},
     acres |-> {}, area_sqft |-> {}, zoning |-> {}, land_use |-> {},
     land_use_code |-> {}, assessed_land |-> {"LANDVAL"},
     assessed_building |-> {"BLDGVAL"}, assessed_total |-> {"JUSTVAL"},
     market_value |-> {"ASMTVAL"}, subdivision |-> {}, block |-> {},
     lot |-> {}, section |-> {}, township |-> {}, range |-> {},
     year_built |-> {"YRBLT"}, num_buildings |-> {"BLDGCNT"},
     num_units |-> {"UNITS"}, total_living_area |-> {"TOTLIVAREA"},
     sale_date |-> {"SALEDT1"}, sale_amount |-> {"SALEPRICE1"},
     parcel_link |-> {}, fema_flood_zone |-> {}]

\* the fields whose default is a number
NumericFields ==
    {"acres", "area_sqft", "assessed_land", "assessed_building",
     "assessed_total", "market_value", "num_buildings", "num_units",
     "total_living_area", "sale_amount"}

\* the documented default: 0 for numeric fields, '' for text
DocumentedDefault(f) == IF f \in NumericFields THEN PyInt(0) ELSE Str(<<>>)

\* the attribute map of the first feature of the last response
MatchedAttributes == response.body.data.features[1].attributes.kv

\* a single-layer adapter finished on a response that carries a feature
SingleLayerHit(a) ==
    pc = "done" /\ Adapter(county) = a /\ ReturnsFeatures(response)

\* lookup_pinellas finished after a parcel-layer candidate matched and the
\* related-records step was passed
PinellasMerged ==
    /\ pc = "done"
    /\ Adapter(county) = "pinellas"
    /\ parcel_data # PyNone
    /\ pao_data # PyNone

\* the mapped record r has the default in every field none of whose source
\* keys is in the raw map(s) with the key set present
DefaultsWhereMissing(r, Keys, present) ==
    \A f \in CanonicalFields :
        (Keys[f] # {} /\ Keys[f] \cap present = {}) => r[f] = DocumentedDefault(f)

(* C11: canonical mapping fallback: when the raw attribute map lacks a
   field's primary key but contains its fallback key, the mapped field is
   the fallback key's value: the Pasco address from SITEADD when SITUSADD1
   is missing, the Pinellas city and legal_description from the related
   record when the parcel layer has none. *)
C11_FallbackUsed ==
    /\ SingleLayerHit("pasco") =>
        (("SITUSADD1" \notin DOMAIN MatchedAttributes
          /\ "SITEADD" \in DOMAIN MatchedAttributes) =>
            /\ outcome = "returned"
            /\ result.address = MatchedAttributes["SITEADD"])
    /\ PinellasMerged =>
        /\ ((KJurisdiction \notin DOMAIN parcel_data.kv
             /\ "SITUSCITY" \in DOMAIN pao_data.kv) =>
                /\ outcome = "returned"
                /\ result.city = pao_data.kv["SITUSCITY"])
        /\ ((KLegal \notin DOMAIN parcel_data.kv
             /\ "LEGALDESC" \in DOMAIN pao_data.kv) =>
                /\ outcome = "returned"
                /\ result.legal_description = pao_data.kv["LEGALDESC"])

(* C12: canonical mapping default: for every adapter and every canonical
   field, when the raw attribute map contains none of the field's source
   keys, the mapped field is the documented default: 0 for the numeric
   fields, '' for the text fields. *)
C12_DocumentedDefaults ==
    /\ SingleLayerHit("hillsborough") =>
        /\ outcome = "returned"
        /\ DefaultsWhereMissing(result, HillsboroughKeys, DOMAIN MatchedAttributes)
    /\ SingleLayerHit("pasco") =>
        /\ outcome = "returned"
        /\ DefaultsWhereMissing(result, PascoKeys, DOMAIN MatchedAttributes)
    /\ SingleLayerHit("manatee") =>
        /\ outcome = "returned"
        /\ DefaultsWhereMissing(result, ManateeKeys, DOMAIN MatchedAttributes)
    /\ PinellasMerged =>
        /\ outcome = "returned"
        /\ \A f \in CanonicalFields :
            (/\ PinellasParcelKeys[f] \cup PinellasPaoKeys[f] # {}
             /\ PinellasParcelKeys[f] \cap DOMAIN parcel_data.kv = {}
             /\ PinellasPaoKeys[f] \cap DOMAIN pao_data.kv = {}) =>
                result[f] = DocumentedDefault(f)

\* the canonical fields lookup_pinellas reads from the assessor record alone
AppraiserFields ==
    {f \in CanonicalFields : PinellasParcelKeys[f] = {} /\ PinellasPaoKeys[f] # {}}

\* the canonical fields lookup_pinellas reads from the parcel layer first
GeometryZoningFields ==
    {f \in CanonicalFields \ {"acres"} : PinellasParcelKeys[f] # {}}

\* lookup_pinellas finished with attributes from both sources
PinellasJoined == PinellasMerged /\ Truthy(pao_data)

(* C13: Pinellas merge precedence: with both sources at hand, where the
   related assessor record carries a value for an appraiser field that value
   is the field, whatever the parcel layer carries; where the parcel layer
   carries a value for a geometry/zoning field (jurisdiction as city and the
   legal description included) that value is the field, whatever the
   assessor record carries for it. *)
C13_MergePrecedence ==
    PinellasJoined =>
        /\ \A f \in AppraiserFields : \A k \in PinellasPaoKeys[f] :
            k \in DOMAIN pao_data.kv =>
                (outcome = "returned" /\ result[f] = pao_data.kv[k])
        /\ \A f \in GeometryZoningFields : \A k \in PinellasParcelKeys[f] :
            (k \in DOMAIN parcel_data.kv /\ Truthy(parcel_data.kv[k])) =>
                (outcome = "returned" /\ result[f] = parcel_data.kv[k])

(* C14: for every supported county, when the upstream holds a matching
   record for the identifier, lookup_property returns Success with address
   and owner both non-empty. *)
C14_KnownGoodIsComplete ==
    (SingleLayerHit("hillsborough") \/ SingleLayerHit("pasco")
     \/ SingleLayerHit("manatee")
     \/ (pc = "done" /\ Adapter(county) = "pinellas" /\ parcel_data # PyNone)) =>
        /\ outcome = "returned"
        /\ IsSuccess(result)
        /\ Truthy(result.address)
        /\ Truthy(result.owner)

(* C15: Hillsborough: when the upstream returns a non-empty feature list
   for the normalized folio, the result is Success and each canonical field
   is the raw attribute of the FIRST feature that the field-name table maps
   to it (owner = OWNERNAME, address = SITUSADD1, ...), whatever further
   features follow. *)
C15_HillsboroughFirstFeature ==
    SingleLayerHit("hillsborough") =>
        /\ requests[1].value = NormalizeFolio(parcel_id)
        /\ outcome = "returned"
        /\ IsSuccess(result)
        /\ \A f \in CanonicalFields : \A k \in HillsboroughKeys[f] :
            k \in DOMAIN MatchedAttributes => result[f] = MatchedAttributes[k]

C15_Witness ==
    /\ SingleLayerHit("hillsborough")
    /\ Len(response.body.data.features) = 2
    /\ parcel_id # NormalizeFolio(parcel_id)
    /\ result.owner = Str(TxtAcme)
    /\ result.address = Str(TxtMainSt)
    /\ result.acres = Num(250, 2)

\* the county argument without blanks around, in lower case: two arguments
\* differ only in letter case and blanks around iff this is the same for both
Canonical(c) == ToLower(Strip(c))

\* the resolver table: the four names that have an adapter
ResolverTable(name) ==
    IF name = ToLower(TxtHillsborough) THEN "hillsborough"
    ELSE IF name = ToLower(TxtPinellas) THEN "pinellas"
    ELSE IF name = ToLower(TxtManatee) THEN "manatee"
    ELSE IF name = ToLower(TxtPasco) THEN "pasco"
    ELSE "none"

\* the adapter whose endpoint a request goes to
AdapterOfUrl(url) ==
    IF url = HillsboroughUrl THEN "hillsborough"
    ELSE IF url \in {PinellasParcelUrl, PinellasRelatedUrl} THEN "pinellas"
    ELSE IF url = ManateeUrl THEN "manatee"
    ELSE "pasco"

(* C16: county resolution depends on the county argument only through its
   form without letter case and blanks around, so two arguments that differ
   only in these are dispatched alike; exactly hillsborough, pinellas,
   manatee and pasco are dispatched to an adapter (the one of that name),
   every other name gets a Failure without any request. *)
C16_ResolutionByCanonicalName ==
    pc # "idle" =>
        /\ (requests = <<>> /\ pc # "done") => pc = ResolverTable(Canonical(county_arg))
        /\ requests # <<>> =>
              AdapterOfUrl(requests[1].url) = ResolverTable(Canonical(county_arg))
        /\ (requests = <<>> /\ pc = "done") =>
              /\ ResolverTable(Canonical(county_arg)) = "none"
              /\ outcome = "returned"
              /\ IsFailure(result)

C16_Witness ==
    /\ pc = "done"
    /\ county_arg = <<"\t">> \o SwapCase(TxtPinellas) \o <<" ", " ">>
    /\ Len(requests) = 4
    /\ requests[1].url = PinellasParcelUrl

(* C17: identifier normalization is idempotent for both normalizers: the
   folio lookup_hillsborough sends and the normalized identifier
   lookup_pasco sends are left as they are by normalizing them again, and
   hold none of the removed characters ('-', ' ', '.' for Hillsborough;
   '-', ' ' for Pasco). *)
C17_NormalizationIdempotent ==
    \A k \in 1..Len(requests) :
        LET v == requests[k].value
        IN  /\ requests[k].url = HillsboroughUrl =>
                /\ v = NormalizeFolio(parcel_id)
                /\ NormalizeFolio(v) = v
                /\ \A i \in 1..Len(v) : v[i] \notin {"-", " ", "."}
            /\ (requests[k].url = PascoUrl /\ k % 2 = 0) =>
                /\ v = NormalizeParcel(parcel_id)
                /\ NormalizeParcel(v) = v
                /\ \A i \in 1..Len(v) : v[i] \notin {"-", " "}

C17_Witness ==
    /\ Adapter(county) = "pasco"
    /\ parcel_id = <<"-", "1", "-">>
    /\ Len(requests) = 2
    /\ requests[2].value = <<"1">>

\* the query engine of a multi-candidate adapter found a feature
Found ==
    \/ (Adapter(county) = "pasco" /\ response # PyNone /\ ReturnsFeatures(response))
    \/ (Adapter(county) = "pinellas" /\ parcel_data # PyNone)

\* every candidate was requested and none returned a feature
Exhausted == Len(CandidateRequests) = 4 /\ attempt = 4 /\ ~Found

(* C19: every lookup terminates: with every request answered or timed out,
   a call that was started reaches its end; a multi-candidate adapter ends
   in FOUND or EXHAUSTED after at most one request per candidate (four at
   most, the k-th request for the k-th candidate), and once ended the call
   issues no further request. *)
C19_LookupTerminates ==
    /\ (pc \notin {"idle", "done"}) ~> (pc = "done")
    /\ [](MultiCandidate =>
            /\ Len(CandidateRequests) <= 4
            /\ Len(CandidateRequests) <= attempt
            /\ (pc = "done" => (Found \/ Exhausted)))
    /\ [][pc = "done" => requests' \in {requests, <<>>}]_vars

C19_Witness ==
    /\ pc = "done"
    /\ Adapter(county) = "pinellas"
    /\ Exhausted
    /\ outcome = "returned"
    /\ result = PinellasNotFound(parcel_id)

\* the positions at which a request is outstanding
WaitPositions ==
    {"hillsborough_wait", "manatee_wait", "pasco_wait", "pinellas_wait",
     "pinellas_related_wait"}

(* C18: within one lookup the HTTP requests are issued strictly in sequence:
   at most one request is outstanding at any time, and request i+1 (the
   next candidate, or the Pinellas related-records query) exists only when
   request i has been answered or has timed out. *)
C18_OneRequestAtATime ==
    /\ Len(requests) - Len(answers) \in {0, 1}
    /\ Len(requests) - Len(answers) = 1 <=> pc \in WaitPositions

C18_Witness ==
    /\ pc = "pinellas_related_wait"
    /\ Len(requests) = 4
    /\ Len(answers) = 3
    /\ requests[4].url = PinellasRelatedUrl

(* C20: lookups are independent and repeatable: a call with the same county
   and parcel_id as an earlier call of the process, whose requests are
   answered the same, ends the same way with an equal result, whatever calls
   came before or in between; between calls nothing of a call is left. *)
C20_RepeatableLookup ==
    /\ (pc = "done" /\ reference # PyNone
        /\ reference.county = county
        /\ reference.parcel_id = parcel_id
        /\ reference.answers = answers) =>
            /\ outcome = reference.outcome
            /\ result = reference.result
    /\ pc = "idle" => (NoLocals /\ outcome = "none" /\ result = PyNone)

C20_Witness ==
    /\ pc = "done"
    /\ reference # PyNone
    /\ Adapter(county) = "pinellas"
    /\ reference.county = county
    /\ reference.parcel_id = parcel_id
    /\ reference.answers = answers
    /\ Len(answers) = 4
    /\ outcome = "returned"
    /\ IsSuccess(result)
    /\ result.owner = Str(TxtAcme)

\* the raw map without the keys whose value is null or ''
NonEmptyOnly(a) ==
    Dict([k \in {j \in DOMAIN a.kv : a.kv[j] \notin {PyNone, Str(<<>>)}} |-> a.kv[k]])

(* C23: first present/non-empty value wins: a raw field that is present but
   null or '' counts like an absent one, so that the record returned equals
   the record mapped from the raw map without its empty entries, and no
   canonical field of a Success record is None. *)
C23_EmptyLikeAbsent ==
    /\ (SingleLayerHit("hillsborough") /\ outcome = "returned") =>
          result = MapHillsborough(NonEmptyOnly(FirstAttributes(response.body.data)))
    /\ (SingleLayerHit("manatee") /\ outcome = "returned") =>
          result = MapManatee(NonEmptyOnly(FirstAttributes(response.body.data)))
    /\ (pc = "done" /\ outcome = "returned" /\ result.success = TRUE) =>
          \A f \in CanonicalFields : result[f] # PyNone

\* the related-records requests of the call
RelatedRequests ==
    SelectSeq(requests, LAMBDA q : q.url = PinellasRelatedUrl)

(* C24: Pinellas two-step ordering: the related-records request is sent at
   most once, after a parcel-layer candidate matched and as the last
   request, with the object identifier of the matched feature; it is not
   sent when the candidates are exhausted, and a call that matched a feature
   carrying an object identifier does not end without it. *)
C24_RelatedAfterMatch ==
    /\ Len(RelatedRequests) <= 1
    /\ RelatedRequests # <<>> =>
          /\ parcel_data # PyNone
          /\ KObjectId \in DOMAIN parcel_data.kv
          /\ requests[Len(requests)] = RelatedRequest(parcel_data.kv[KObjectId])
    /\ (Adapter(county) = "pinellas" /\ pc = "done" /\ parcel_data # PyNone
        /\ KObjectId \in DOMAIN parcel_data.kv) =>
          RelatedRequests # <<>>

\* the four counties of the resolver table
SupportedCounties == {TxtHillsborough, TxtPinellas, TxtManatee, TxtPasco}

(* C26: a lookup for a county outside Hillsborough, Pinellas, Manatee and
   Pasco sends no request at any point of the call and ends with a Failure. *)
C26_NoRequestWhenUnsupported ==
    (pc # "idle" /\ county \notin SupportedCounties) =>
        /\ requests = <<>>
        /\ pc = "done"
        /\ outcome = "returned"
        /\ result.success = FALSE

C26_Witness ==
    /\ pc = "done"
    /\ county = TxtSarasota
    /\ requests = <<>>
    /\ result = Failure(TxtSarasotaPhase2)

\* the names of table that name is, letter case and blanks around aside
Matching(table, name) ==
    {k \in DOMAIN table : ToLower(k) = Canonical(name)}

\* a get_municode_link call that has returned
LinkReturned ==
    /\ municode # PyNone
    /\ municode.fn = "get_municode_link"
    /\ municode.value # Pending

(* C21: link resolution: get_municode_link(county, city) returns the city
   table's URL whenever the city is given and is one of the table's names,
   whatever the county; otherwise the county table's URL when the county is
   one of its names; and None when neither is. *)
C21_CityBeforeCounty ==
    LinkReturned =>
        LET co == municode.args[1]
            ci == municode.args[2]
            cities == IF ci = PyNone THEN {} ELSE Matching(city_municodes, ci.s)
            counties == Matching(county_municodes, co)
        IN  IF cities # {}
                THEN \E k \in cities : municode.value = Url(<<city_municodes[k]>>)
            ELSE IF counties # {}
                THEN \E k \in counties : municode.value = Url(<<county_municodes[k]>>)
            ELSE municode.value = PyNone

C21_Witness ==
    /\ LinkReturned
    /\ municode.args[1] = ToUpper(TxtPinellas)
    /\ municode.args[2] = Str(ToLower(TxtTampa))
    /\ municode.value = Url(<<city_municodes[TxtTampa]>>)

\* a search_municode call that has returned
SearchReturned ==
    /\ municode # PyNone
    /\ municode.fn = "search_municode"
    /\ municode.value # Pending

(* C25: search_municode(jurisdiction, term) returns a search URL for every
   jurisdiction, city or county, that is in one of the two link tables, and
   None only for a jurisdiction that is in neither. *)
C25_SearchForEveryJurisdiction ==
    SearchReturned =>
        LET j == municode.args[1]
            listed == Matching(city_municodes, j) \cup Matching(county_municodes, j)
        IN  /\ municode.value = PyNone <=> listed = {}
            /\ municode.value # PyNone =>
                  /\ municode.value.t = "str"
                  /\ Contains(municode.value.s, <<"?searchText=">>)

\* the header generate_parcel_report writes for each key of SectionFlags
SectionTitle ==
    [k \in SectionSet |->
        CASE k = "property_info"         -> "PROPERTY INFORMATION"
          [] k = "site_characteristics"  -> "SITE CHARACTERISTICS"
          [] k = "zoning_land_use"       -> "ZONING & LAND USE"
          [] k = "building_requirements" -> "BUILDING REQUIREMENTS"
          [] k = "parking_requirements"  -> "PARKING REQUIREMENTS"
          [] k = "assessment_values"     -> "ASSESSMENT VALUES"
          [] k = "sales_history"         -> "SALES HISTORY"
          [] k = "links_references"      -> "LINKS & REFERENCES"]

\* a row each section carries whenever it is written
SectionRow ==
    [k \in SectionSet |->
        CASE k = "property_info"         -> "Owner Name"
          [] k = "site_characteristics"  -> "Site Area"
          [] k = "zoning_land_use"       -> "Current Zoning"
          [] k = "building_requirements" -> "Setback - Front"
          [] k = "parking_requirements"  -> "Standard Parking"
          [] k = "assessment_values"     -> "Total Assessed Value"
          [] k = "sales_history"         -> "Most Recent Sale Date"
          [] k = "links_references"      -> "Source"]

\* the saved sheet has a cell of this kind and label
Written(kind, label) ==
    \E i \in DOMAIN ws.value.saved :
        ws.value.saved[i].kind = kind /\ ws.value.saved[i].label = label

\* generate_parcel_report has returned for a sections dict of all eight flags
ReportReturned ==
    /\ ws # PyNone
    /\ ws.value.t = "returned"
    /\ ws.args[4] # PyNone
    /\ DOMAIN ws.args[4].kv = SectionSet

\* C22: for each of the eight section flags, generate_parcel_report writes the
\* section, its header and its rows, exactly when the flag is true
C22_SectionIffFlag ==
    ReportReturned =>
        \A k \in SectionSet :
            /\ Written("section", SectionTitle[k]) <=> ws.args[4].kv[k]
            /\ Written("data", SectionRow[k]) <=> ws.args[4].kv[k]

\* the handler of the Lookup button is taking a result that is a Success
LookupSucceeded == outcome = "returned" /\ result.success

\* C27: a lookup from the page that ends in a Failure or raises leaves
\* property_data, lookup_history and favorites as they were; one that ends in a
\* Success makes its result the property_data and appends exactly one entry,
\* with the county and parcel ID that were looked up, to lookup_history
C27_LookupUpdatesSession ==
    [][(pc = "done" /\ pc' = "idle") =>
          IF LookupSucceeded
              THEN /\ session_state'.property_data = result
                   /\ Len(session_state'.lookup_history)
                          = Len(session_state.lookup_history) + 1
                   /\ SubSeq(session_state'.lookup_history, 1,
                             Len(session_state.lookup_history))
                          = session_state.lookup_history
                   /\ SummaryCounty(session_state') = county_arg
                   /\ SummaryParcelId(session_state') = parcel_id
                   /\ session_state'.favorites = session_state.favorites
              ELSE /\ session_state'.property_data = session_state.property_data
                   /\ session_state'.lookup_history = session_state.lookup_history
                   /\ session_state'.favorites = session_state.favorites]_vars

\* a lookup that failed is handed to the page that holds a property, a
\* favorite and the record of the lookup that succeeded
C27_Witness ==
    /\ pc = "done"
    /\ ~LookupSucceeded
    /\ Loaded(session_state)
    /\ Len(session_state.lookup_history) = 1
    /\ session_state.favorites # <<>>

\* the property appraiser link a Pinellas lookup of parcel p puts in its result
PinellasLink(p) == Str(TxtPaoLink \o p)

\* C28: whatever was done on the page, the county and parcel ID of the Report
\* Configuration summary are those of the property in property_data: the
\* summary names Pinellas and a parcel exactly when the property carries the
\* Pinellas link of that parcel
C28_SummaryOfLoadedProperty ==
    Loaded(session_state) =>
        (SummaryCounty(session_state) = TxtPinellas
            <=> session_state.property_data.parcel_link
                    = PinellasLink(SummaryParcelId(session_state)))

\* C29: favorites never holds two entries with the same property data
C29_NoDuplicateFavorite ==
    \A i, j \in DOMAIN session_state.favorites :
        i # j => session_state.favorites[i].data # session_state.favorites[j].data

\* C30: generate_parcel_report is called only with a property loaded and with
\* at least one section flag true
C30_GenerateNeedsPropertyAndSection ==
    report # PyNone =>
        /\ report.property_data # PyNone
        /\ \E k \in SectionSet : report.sections[k]

\* a report was generated with a section switched off
C30_Witness ==
    /\ report # PyNone
    /\ report.value.t = "returned"
    /\ \E k \in SectionSet : ~report.sections[k]
    /\ \E k \in SectionSet : report.sections[k]

---------------------------------------------------------------------------

Spec == Init /\ [][Next]_vars

\* the positions of a call
Positions ==
    {"idle", "hillsborough", "hillsborough_wait", "manatee", "manatee_wait",
     "pasco", "pasco_wait", "pinellas", "pinellas_wait",
     "pinellas_related", "pinellas_related_wait", "done"}

\* a call that was entered runs on: the statement at hand is executed, and a
\* request that is outstanding is answered or runs into its timeout
\* (timeout=15, timeout=10); every step of a call moves its position
Proceed == pc # "idle" /\ pc' \in Positions /\ pc' # pc

FairSpec == Init /\ [][Next]_vars /\ WF_pc(Proceed)

ResolveSpec == Init /\ [][ResolveNext]_vars

NormalizeSpec == Init /\ [][NormalizeNext]_vars

RepeatSpec == Init /\ [][RepeatNext]_vars

LinkSpec == LinkInit /\ [][LinkNext]_vars

ReportSpec == ReportInit /\ [][ReportNext]_vars

SessionSpec == Init /\ [][SessionNext]_vars

===========================================================================
